---- MODULE Spec2Model ----
(***************************************************************************)
(* Timestamp reconciliation of ffmpeg-kit's option layer                   *)
(* (linux/src/fftools_ffmpeg_opt.c): correct_input_start_times followed by *)
(* apply_sync_offsets, as ffmpeg_parse_options runs them over the input    *)
(* registry input_files[0 .. nb_input_files-1].                            *)
(*                                                                         *)
(* int64_t is modelled as a two's-complement word of IntBits bits, so that *)
(* INT64_MAX and AV_NOPTS_VALUE (= INT64_MIN) are the extreme values of    *)
(* the word and signed arithmetic wraps as the build's arithmetic does.    *)
(***************************************************************************)
EXTENDS Integers, Sequences, FiniteSets, TLC

\* ------------------------------------------------------------------ bounds
MaxInputs == 3
MaxStreams == 2
IntBits == 12
MaxGroups == 2
MaxCalls == 3

\* ------------------------------------------------------- program constants
AV_TIME_BASE == 1000000

IntMod == 2 ^ IntBits
INT64_MAX == 2 ^ (IntBits - 1) - 1
INT64_MIN == 0 - 2 ^ (IntBits - 1)
AV_NOPTS_VALUE == INT64_MIN
AV_TIME_BASE_Q == [num |-> 1, den |-> AV_TIME_BASE]
EINVAL == 22
ENOMEM == 12
AVERROR(e) == 0 - e

\* ------------------------------------------------------------- arithmetic
\* int64_t result of an arithmetic expression: wraps modulo 2^IntBits.
Wrap(x) == ((x - INT64_MIN) % IntMod) + INT64_MIN

\* true when the mathematical value x is not representable (signed overflow)
Overflows(x) == x > INT64_MAX \/ x < INT64_MIN

FFMIN(a, b) == IF a > b THEN b ELSE a

\* av_rescale_q(a, bq, cq): a * bq / cq rounded to nearest, halves away
\* from zero (AV_ROUND_NEAR_INF), as called with cq = AV_TIME_BASE_Q.
av_rescale_rnd_near(a, b, c) ==
    IF a < 0 THEN 0 - ((((0 - a) * b) + (c \div 2)) \div c)
             ELSE ((a * b) + (c \div 2)) \div c

av_rescale_q(a, bq, cq) == av_rescale_rnd_near(a, bq.num * cq.den, bq.den * cq.num)

\* ------------------------------------------------------------------ state
VARIABLES
    copy_ts,            \* global flag -copyts
    start_at_zero,      \* global flag -start_at_zero
    nb_input_files,     \* number of opened inputs
    input_files,        \* [0 .. nb_input_files-1 -> InputFile]
    pc,                 \* position in ffmpeg_parse_options
    i,                  \* loop index of the running pass
    ret,                \* ret of ffmpeg_parse_options
    files0,             \* registry on entry to correct_input_start_times
    files1,             \* registry on entry to apply_sync_offsets
    files2,             \* registry on entry to a repeated run of a pass
    overflow,           \* a signed 64-bit operation has overflowed
    groups,             \* octx: the global options and the input and output groups
    opts,               \* what open_files has done to each group's OptionsContext
    inout,              \* the list the running open_files goes through
    errmsg,             \* errmsg of ffmpeg_parse_options
    octx_uninit,        \* calls of uninit_parse_context
    filter_hw_device,   \* the filter hardware device, NULL when unset
    hw_devices,         \* names of the hardware devices created so far
    stream_maps,        \* o->stream_maps, of length o->nb_stream_maps
    visited             \* inputs apply_sync_offsets has gone through

\* the state outside the two timestamp passes
session == <<groups, opts, inout, errmsg, filter_hw_device, hw_devices,
             stream_maps, visited>>

vars == <<copy_ts, start_at_zero, nb_input_files, input_files, pc, i, ret,
          files0, files1, files2, overflow, session, octx_uninit>>

\* An InputFile with the AVFormatContext fields the passes read:
\*   ctx_start_time       ifile->ctx->start_time
\*   ts_discont           ifile->ctx->iformat->flags & AVFMT_TS_DISCONT
\*   streams              ifile->ctx->streams[0 .. nb_streams-1]
\*   start_time_realtime  ifile->ctx->start_time_realtime
\*   start_time           ifile->start_time (user seek start, -ss)
\*   input_ts_offset      ifile->input_ts_offset (user offset, -itsoffset)
\*   ts_offset, start_time_effective, input_sync_ref
\* An AVStream: discard ("all" is AVDISCARD_ALL), start_time, time_base.

\* ------------------------------------------- correct_input_start_times
\* Mutant of StreamLoop: the stream loop without the AVDISCARD_ALL test.
RECURSIVE StreamLoopKeepsDiscarded(_, _, _)
StreamLoopKeepsDiscarded(streams, j, acc) ==
    IF j > Len(streams) THEN acc
    ELSE LET st == streams[j] IN
         IF st.start_time = AV_NOPTS_VALUE
         THEN StreamLoopKeepsDiscarded(streams, j + 1, acc)
         ELSE StreamLoopKeepsDiscarded(streams, j + 1,
                  FFMIN(acc, av_rescale_q(st.start_time, st.time_base, AV_TIME_BASE_Q)))

\* The inner loop over is->streams, from stream j on, with new_start_time
\* so far equal to acc.
RECURSIVE StreamLoop(_, _, _)
StreamLoop(streams, j, acc) ==
    IF j > Len(streams) THEN acc
    ELSE LET st == streams[j] IN
         IF st.discard = "all" \/ st.start_time = AV_NOPTS_VALUE
         THEN StreamLoop(streams, j + 1, acc)
         ELSE StreamLoop(streams, j + 1,
                  FFMIN(acc, av_rescale_q(st.start_time, st.time_base, AV_TIME_BASE_Q)))

\* new_start_time after the stream loop
NewStartTime(f) == StreamLoop(f.streams, 1, INT64_MAX)

\* Mutant of AbsStartSeek: the user's start time (-ss) left out.
AbsStartSeekNoUserStart(f) == f.ctx_start_time

\* abs_start_seek, as a mathematical integer
AbsStartSeek(f) ==
    f.ctx_start_time + (IF f.start_time # AV_NOPTS_VALUE THEN f.start_time ELSE 0)

\* Mutant of DerivedOffset: the copy_ts && start_at_zero branch left out.
DerivedOffsetIgnoresStartAtZero(f, nst, cts, saz) ==
    IF ~cts
    THEN IF Wrap(AbsStartSeek(f)) > nst THEN Wrap(0 - Wrap(AbsStartSeek(f)))
                                        ELSE Wrap(0 - nst)
    ELSE 0

\* the value assigned to ifile->ts_offset in the three flag cases, before
\* input_ts_offset is added
DerivedOffset(f, nst, cts, saz) ==
    IF cts /\ saz THEN Wrap(0 - nst)
    ELSE IF ~cts
         THEN IF Wrap(AbsStartSeek(f)) > nst THEN Wrap(0 - Wrap(AbsStartSeek(f)))
                                             ELSE Wrap(0 - nst)
         ELSE 0

\* Mutant of SkipsCorrection: the AVFMT_TS_DISCONT test left out.
SkipsCorrectionIgnoresFlag(f) == f.ctx_start_time = AV_NOPTS_VALUE

\* whether input f takes the early continue of the outer loop
SkipsCorrection(f) == f.ctx_start_time = AV_NOPTS_VALUE \/ ~f.ts_discont

\* Mutant of CorrectOne: the derived offset replaces input_ts_offset.
CorrectOneDropsUserOffset(f, cts, saz) ==
    LET f1 == [f EXCEPT !.start_time_effective = f.ctx_start_time]
        nst == NewStartTime(f)
        diff == Wrap(nst - f.ctx_start_time)
    IN  IF SkipsCorrection(f) THEN f1
        ELSE IF diff = 0 THEN f1
        ELSE [f1 EXCEPT !.start_time_effective = nst,
                        !.ts_offset = DerivedOffset(f, nst, cts, saz)]

\* Mutant of CorrectOne: the `if (diff)` test left out.
CorrectOneIgnoresDiff(f, cts, saz) ==
    LET f1 == [f EXCEPT !.start_time_effective = f.ctx_start_time]
        nst == NewStartTime(f)
    IN  IF SkipsCorrection(f) THEN f1
        ELSE [f1 EXCEPT !.start_time_effective = nst,
                        !.ts_offset = Wrap(DerivedOffset(f, nst, cts, saz) + f.input_ts_offset)]

\* Mutant of CorrectOne: the derived offset is added to the ts_offset found.
CorrectOneAccumulates(f, cts, saz) ==
    LET f1 == [f EXCEPT !.start_time_effective = f.ctx_start_time]
        nst == NewStartTime(f)
        diff == Wrap(nst - f.ctx_start_time)
    IN  IF SkipsCorrection(f) THEN f1
        ELSE IF diff = 0 THEN f1
        ELSE [f1 EXCEPT !.start_time_effective = nst,
                        !.ts_offset = Wrap(f.ts_offset + DerivedOffset(f, nst, cts, saz)
                                           + f.input_ts_offset)]

\* one iteration of the outer loop: the InputFile after it
CorrectOne(f, cts, saz) ==
    LET f1 == [f EXCEPT !.start_time_effective = f.ctx_start_time]
        nst == NewStartTime(f)
        diff == Wrap(nst - f.ctx_start_time)
    IN  IF SkipsCorrection(f) THEN f1
        ELSE IF diff = 0 THEN f1
        ELSE [f1 EXCEPT !.start_time_effective = nst,
                        !.ts_offset = Wrap(DerivedOffset(f, nst, cts, saz) + f.input_ts_offset)]

\* signed overflow met by one iteration of the outer loop
CorrectOverflows(f, cts, saz) ==
    LET nst == NewStartTime(f) IN
    /\ ~SkipsCorrection(f)
    /\ \/ Overflows(nst - f.ctx_start_time)
       \/ /\ nst # f.ctx_start_time
          /\ \/ cts /\ saz /\ Overflows(0 - nst)
             \/ ~cts /\ Overflows(AbsStartSeek(f))
             \/ ~cts /\ Overflows(0 - (IF Wrap(AbsStartSeek(f)) > nst
                                       THEN Wrap(AbsStartSeek(f)) ELSE nst))
             \/ Overflows(DerivedOffset(f, nst, cts, saz) + f.input_ts_offset)

\* --------------------------------------------------- apply_sync_offsets
\* Mutant of NoSync: only -1 counts as no reference.
NoSyncOnlyMinusOne(self, idx) == self.input_sync_ref = -1

\* `continue` of an input without a sync reference, or referring to itself
NoSync(self, idx) == self.input_sync_ref = -1 \/ self.input_sync_ref = idx

\* the reference names no input
OutOfRange(self, n) == self.input_sync_ref >= n \/ self.input_sync_ref < -1

\* Mutant of Chained: the comparison with the input's own reference left out.
ChainedAnyReference(self, ref) == ref.input_sync_ref # -1

\* Mutant of Chained: only a reference without range counts as chained, so
\* a reference back to the referring input is accepted.
ChainedOnlyDangling(self, ref) ==
    ref.input_sync_ref # -1 /\ ref.input_sync_ref # self.input_sync_ref
    /\ ref.input_sync_ref < -1

\* Mutant of Chained: the second comparison inverted.
ChainedInverted(self, ref) ==
    ref.input_sync_ref # -1 /\ ref.input_sync_ref = self.input_sync_ref

\* the referenced input is itself resynced to another input
Chained(self, ref) ==
    ref.input_sync_ref # -1 /\ ref.input_sync_ref # self.input_sync_ref

\* Mutant of SyncBranch: the chained test moved before the copy_ts test.
SyncBranchChainedFirst(files, n, idx, cts, saz) ==
    LET self == files[idx] IN
    IF NoSync(self, idx) THEN "none"
    ELSE IF OutOfRange(self, n) THEN "range"
    ELSE LET ref == files[self.input_sync_ref] IN
         IF Chained(self, ref) THEN "chained"
         ELSE IF cts /\ ~saz THEN "copyts"
         ELSE IF /\ self.start_time_realtime # AV_NOPTS_VALUE
                 /\ ref.start_time_realtime # AV_NOPTS_VALUE
         THEN "realtime"
         ELSE IF /\ self.start_time_effective # AV_NOPTS_VALUE
                 /\ ref.start_time_effective # AV_NOPTS_VALUE
         THEN "effective"
         ELSE "unset"

\* the branch iteration idx of the loop takes over registry files of n inputs
\*   "none"     input_sync_ref is -1 or idx: continue
\*   "range"    reference out of range: return AVERROR(EINVAL)
\*   "copyts"   copy_ts without start_at_zero: return AVERROR(EINVAL)
\*   "chained"  the reference is itself resynced: continue
\*   "realtime" both start_time_realtime known
\*   "effective" both start_time_effective known
\*   "unset"    start_times_set = 0
SyncBranch(files, n, idx, cts, saz) ==
    LET self == files[idx] IN
    IF NoSync(self, idx) THEN "none"
    ELSE IF OutOfRange(self, n) THEN "range"
    ELSE IF cts /\ ~saz THEN "copyts"
    ELSE LET ref == files[self.input_sync_ref] IN
         IF Chained(self, ref) THEN "chained"
         ELSE IF /\ self.start_time_realtime # AV_NOPTS_VALUE
                 /\ ref.start_time_realtime # AV_NOPTS_VALUE
         THEN "realtime"
         ELSE IF /\ self.start_time_effective # AV_NOPTS_VALUE
                 /\ ref.start_time_effective # AV_NOPTS_VALUE
         THEN "effective"
         ELSE "unset"

\* Mutants of IsFatal: one of the two fatal branches only logs and goes on.
IsFatalCopytsOnly(branch) == branch = "copyts"

IsFatalRangeOnly(branch) == branch = "range"

\* the branches that return AVERROR(EINVAL)
IsFatal(branch) == branch \in {"range", "copyts"}

\* self_start_time and ref_start_time on the two branches that set them
SelfStartTime(self, branch) ==
    IF branch = "realtime" THEN self.start_time_realtime ELSE self.start_time_effective

\* Mutant of RefStartTime: the reference's effective start time always.
RefStartTimeEffective(ref, branch) == ref.start_time_effective

RefStartTime(ref, branch) ==
    IF branch = "realtime" THEN ref.start_time_realtime ELSE ref.start_time_effective

\* self_seek_start / ref_seek_start
SeekStart(f) == IF f.start_time = AV_NOPTS_VALUE THEN 0 ELSE f.start_time

\* Mutant of Adjustment: the seek starts counted whatever copy_ts is.
AdjustmentAlwaysSeek(self, ref, branch, cts) ==
    (SelfStartTime(self, branch) - RefStartTime(ref, branch))
    + (SeekStart(self) - SeekStart(ref))
    + ref.input_ts_offset

\* adjustment, as a mathematical integer
Adjustment(self, ref, branch, cts) ==
    (SelfStartTime(self, branch) - RefStartTime(ref, branch))
    + (IF cts THEN 0 ELSE 1) * (SeekStart(self) - SeekStart(ref))
    + ref.input_ts_offset

\* signed overflow met while computing adjustment and adding it
AdjustOverflows(self, ref, branch, cts) ==
    LET d1 == SelfStartTime(self, branch) - RefStartTime(ref, branch)
        d2 == SeekStart(self) - SeekStart(ref)
        m  == (IF cts THEN 0 ELSE 1) * Wrap(d2)
        s1 == Wrap(d1) + m
        s2 == Wrap(s1) + ref.input_ts_offset
    IN  \/ Overflows(d1) \/ Overflows(d2) \/ Overflows(s1) \/ Overflows(s2)
        \/ Overflows(self.ts_offset + Wrap(s2))

\* Mutant of SyncWrite: the adjustment added to the reference's ts_offset.
SyncWriteToRef(files, idx, branch, cts) ==
    LET self == files[idx]
        ref == files[self.input_sync_ref]
    IN  [files EXCEPT ![self.input_sync_ref].ts_offset =
                          Wrap(@ + Adjustment(self, ref, branch, cts))]

\* Mutant of SyncWrite: the adjustment assigned to ts_offset, not added.
SyncWriteAssigns(files, idx, branch, cts) ==
    LET self == files[idx]
        ref == files[self.input_sync_ref]
    IN  [files EXCEPT ![idx].ts_offset = Adjustment(self, ref, branch, cts)]

\* the registry after `self->ts_offset += adjustment` in iteration idx
SyncWrite(files, idx, branch, cts) ==
    LET self == files[idx]
        ref == files[self.input_sync_ref]
    IN  [files EXCEPT ![idx].ts_offset = Wrap(@ + Adjustment(self, ref, branch, cts))]

\* ---------------------------------------------------------------- actions
\* correct_input_start_times: iteration i of the loop over the inputs
CorrectStep ==
    /\ pc = "correct_input_start_times"
    /\ i < nb_input_files
    /\ input_files' = [input_files EXCEPT ![i] = CorrectOne(@, copy_ts, start_at_zero)]
    /\ overflow' = (overflow \/ CorrectOverflows(input_files[i], copy_ts, start_at_zero))
    /\ i' = i + 1
    /\ UNCHANGED <<session, octx_uninit, copy_ts, start_at_zero, nb_input_files, pc, ret, files0, files1, files2>>

\* Mutant of CorrectReturn: the loop stops one input short.
CorrectReturnEarly ==
    /\ pc = "correct_input_start_times"
    /\ i >= nb_input_files - 1
    /\ pc' = "apply_sync_offsets"
    /\ i' = 0
    /\ files1' = input_files
    /\ UNCHANGED <<session, octx_uninit, copy_ts, start_at_zero, nb_input_files, input_files, ret, files0, files2, overflow>>

\* correct_input_start_times returns; ffmpeg_parse_options calls
\* apply_sync_offsets
CorrectReturn ==
    /\ pc = "correct_input_start_times"
    /\ i = nb_input_files
    /\ pc' = "apply_sync_offsets"
    /\ i' = 0
    /\ files1' = input_files
    /\ UNCHANGED <<session, octx_uninit, copy_ts, start_at_zero, nb_input_files, input_files, ret, files0, files2, overflow>>

\* apply_sync_offsets: iteration i of the loop over the inputs. A fatal
\* branch returns AVERROR(EINVAL); ffmpeg_parse_options then jumps to fail
\* and returns it, i staying at the offending input.
SyncStep ==
    /\ pc = "apply_sync_offsets"
    /\ i < nb_input_files
    /\ LET self == input_files[i]
           branch == SyncBranch(input_files, nb_input_files, i, copy_ts, start_at_zero)
       IN  IF IsFatal(branch)
           THEN /\ ret' = AVERROR(EINVAL)
                /\ pc' = "done"
                /\ octx_uninit' = octx_uninit + 1
                /\ UNCHANGED <<input_files, i, overflow>>
           ELSE IF branch \in {"realtime", "effective"}
           THEN /\ input_files' = SyncWrite(input_files, i, branch, copy_ts)
                /\ overflow' = (overflow \/ AdjustOverflows(self,
                                   input_files[self.input_sync_ref], branch, copy_ts))
                /\ i' = i + 1
                /\ UNCHANGED <<pc, ret, octx_uninit>>
           ELSE /\ i' = i + 1
                /\ UNCHANGED <<input_files, pc, ret, overflow, octx_uninit>>
    /\ UNCHANGED <<session, copy_ts, start_at_zero, nb_input_files, files0, files1, files2>>

\* apply_sync_offsets returns 0; ffmpeg_parse_options goes on to
\* check_filter_outputs
SyncReturn ==
    /\ pc = "apply_sync_offsets"
    /\ i = nb_input_files
    /\ ret' = 0
    /\ pc' = "check_filter_outputs"
    /\ UNCHANGED <<session, octx_uninit, copy_ts, start_at_zero, nb_input_files, input_files, i, files0, files1, files2, overflow>>

\* check_filter_outputs (ffmpeg_filter.c) succeeds or fails; either way
\* ffmpeg_parse_options reaches fail: and returns ret
CheckFilterOutputs ==
    /\ pc = "check_filter_outputs"
    /\ \E r \in {0, AVERROR(EINVAL)} : ret' = r
    /\ pc' = "done"
    /\ octx_uninit' = octx_uninit + 1
    /\ UNCHANGED <<session, copy_ts, start_at_zero, nb_input_files, input_files, i, files0, files1, files2, overflow>>

Next == CorrectStep \/ CorrectReturn \/ SyncStep \/ SyncReturn \/ CheckFilterOutputs

\* ------------------------------------------------------------ registries
\* InputFile records over the given value sets; start_time_effective is not
\* yet set (zero-initialised) before correct_input_start_times
InputFiles(ctxTimes, discont, streamLists, realTimes, userTimes, userOffsets, offsets, refs) ==
    [ctx_start_time : ctxTimes, ts_discont : discont, streams : streamLists,
     start_time_realtime : realTimes, start_time : userTimes,
     input_ts_offset : userOffsets, ts_offset : offsets,
     start_time_effective : {0}, input_sync_ref : refs]

\* a null pointer
NULL == "NULL"

\* a command line without input or output groups, and no OptionsContext
\* ever set up for them
NoGroups == [global |-> [copy_ts |-> FALSE, start_at_zero |-> FALSE, ret |-> 0],
             input |-> <<>>, output |-> <<>>]

NoOptions == [input |-> <<>>, output |-> <<>>]

\* the state on entry to correct_input_start_times with registry files
InitWith(n, files, cts, saz) ==
    /\ copy_ts = cts
    /\ start_at_zero = saz
    /\ nb_input_files = n
    /\ input_files = files
    /\ pc = "correct_input_start_times"
    /\ i = 0
    /\ ret = 0
    /\ files0 = files
    /\ files1 = files
    /\ files2 = files
    /\ overflow = FALSE
    /\ groups = NoGroups
    /\ opts = NoOptions
    /\ inout = "output"
    /\ errmsg = NULL
    /\ octx_uninit = 0
    /\ filter_hw_device = NULL
    /\ hw_devices = {}
    /\ stream_maps = <<>>
    /\ visited = {}

\* Time bases of the streams: microseconds and the 90 kHz MPEG clock.
TimeBases == {[num |-> 1, den |-> AV_TIME_BASE], [num |-> 1, den |-> 90000]}

MpegStream(t) == [discard |-> "none", start_time |-> t, time_base |-> [num |-> 1, den |-> 90000]]

\* Inputs whose format start time (VariedFormat) and wall-clock start time
\* (VariedRealtime) may be unknown in the synchronizer's registries; the
\* other inputs carry known ones.
VariedFormat == {0, 1, 2}
VariedRealtime == {0, 1}

\* Registries for the synchronizer: input k is an MPEG-TS file (timestamp
\* discontinuities allowed) with one stream starting at tick k+1, a format
\* start time and a wall-clock start time that are each known or unknown,
\* a seek start known for even k, user offset 5+k, a ts_offset that starts
\* at the user offset, and any sync reference from -2 to n.
SyncInputs(n, k) ==
    InputFiles(IF k \in VariedFormat THEN {AV_NOPTS_VALUE, 40} ELSE {40},
               {TRUE},
               {<<MpegStream(k + 1)>>},
               IF k \in VariedRealtime THEN {AV_NOPTS_VALUE, 500 + 10 * k} ELSE {500 + 10 * k},
               {IF k % 2 = 0 THEN 2 + k ELSE AV_NOPTS_VALUE},
               {5 + k},
               {5 + k},
               -2 .. n)

\* the registries of n inputs whose first k inputs are drawn by SyncInputs
RECURSIVE SyncRegistries(_, _)
SyncRegistries(n, k) ==
    IF k = 0 THEN {[j \in {} |-> 0]}
    ELSE {[j \in 0 .. k - 1 |-> IF j = k - 1 THEN f ELSE files[j]] :
              files \in SyncRegistries(n, k - 1), f \in SyncInputs(n, k - 1)}

Init ==
    \E n \in 0 .. MaxInputs, cts \in BOOLEAN, saz \in BOOLEAN :
        \E files \in SyncRegistries(n, n) : InitWith(n, files, cts, saz)

Spec == Init /\ [][Next]_vars

\* Registries for the start-time corrector: input 0 has any list of up to
\* MaxStreams streams, kept or discarded, with known (possibly negative) or
\* unknown start times in either time base; the inputs after it are plain
\* MPEG-TS files synchronised to input 0.
Streams ==
    [discard : {"none"}, start_time : {AV_NOPTS_VALUE, -2, 3}, time_base : TimeBases]
    \cup {[discard |-> "all", start_time |-> -2, time_base |-> [num |-> 1, den |-> 90000]],
          [discard |-> "all", start_time |-> 3, time_base |-> [num |-> 1, den |-> AV_TIME_BASE]]}

StreamLists == UNION {[1 .. k -> Streams] : k \in 0 .. MaxStreams}

CorrectInputs(n, k) ==
    IF k = 0
    THEN InputFiles({AV_NOPTS_VALUE, -2, 3}, BOOLEAN, StreamLists, {AV_NOPTS_VALUE},
                    {AV_NOPTS_VALUE, 4}, {0, 5}, {9}, {-1})
    ELSE InputFiles({40}, {TRUE}, {<<MpegStream(k + 1)>>}, {AV_NOPTS_VALUE},
                    {AV_NOPTS_VALUE}, {5 + k}, {3}, {0})

RECURSIVE CorrectRegistries(_, _)
CorrectRegistries(n, k) ==
    IF k = 0 THEN {[j \in {} |-> 0]}
    ELSE {[j \in 0 .. k - 1 |-> IF j = k - 1 THEN f ELSE files[j]] :
              files \in CorrectRegistries(n, k - 1), f \in CorrectInputs(n, k - 1)}

InitCorrect ==
    \E n \in 0 .. MaxInputs, cts \in BOOLEAN, saz \in BOOLEAN :
        \E files \in CorrectRegistries(n, n) : InitWith(n, files, cts, saz)

SpecCorrect == InitCorrect /\ [][Next]_vars

\* ------------------------------------------------- a pass called again
\* correct_input_start_times has returned and is called a second time
CorrectAgain ==
    /\ pc = "correct_input_start_times"
    /\ i = nb_input_files
    /\ pc' = "correct_input_start_times again"
    /\ i' = 0
    /\ files2' = input_files
    /\ UNCHANGED <<session, octx_uninit, copy_ts, start_at_zero, nb_input_files, input_files, ret, files0, files1, overflow>>

\* the second call: iteration i of the loop over the inputs
CorrectAgainStep ==
    /\ pc = "correct_input_start_times again"
    /\ i < nb_input_files
    /\ input_files' = [input_files EXCEPT ![i] = CorrectOne(@, copy_ts, start_at_zero)]
    /\ overflow' = (overflow \/ CorrectOverflows(input_files[i], copy_ts, start_at_zero))
    /\ i' = i + 1
    /\ UNCHANGED <<session, octx_uninit, copy_ts, start_at_zero, nb_input_files, pc, ret, files0, files1, files2>>

\* the second call returns
CorrectAgainReturn ==
    /\ pc = "correct_input_start_times again"
    /\ i = nb_input_files
    /\ pc' = "done"
    /\ UNCHANGED <<session, octx_uninit, copy_ts, start_at_zero, nb_input_files, input_files, i, ret, files0, files1, files2, overflow>>

NextCorrectTwice == CorrectStep \/ CorrectAgain \/ CorrectAgainStep \/ CorrectAgainReturn

SpecCorrectTwice == InitCorrect /\ [][NextCorrectTwice]_vars

\* apply_sync_offsets has returned 0 and is called a second time
SyncAgain ==
    /\ pc = "apply_sync_offsets"
    /\ i = nb_input_files
    /\ ret' = 0
    /\ pc' = "apply_sync_offsets again"
    /\ i' = 0
    /\ files2' = input_files
    /\ UNCHANGED <<session, octx_uninit, copy_ts, start_at_zero, nb_input_files, input_files, files0, files1, overflow>>

\* the second call: iteration i of the loop over the inputs
SyncAgainStep ==
    /\ pc = "apply_sync_offsets again"
    /\ i < nb_input_files
    /\ LET self == input_files[i]
           branch == SyncBranch(input_files, nb_input_files, i, copy_ts, start_at_zero)
       IN  IF IsFatal(branch)
           THEN /\ ret' = AVERROR(EINVAL)
                /\ pc' = "done"
                /\ UNCHANGED <<input_files, i, overflow>>
           ELSE IF branch \in {"realtime", "effective"}
           THEN /\ input_files' = SyncWrite(input_files, i, branch, copy_ts)
                /\ overflow' = (overflow \/ AdjustOverflows(self,
                                   input_files[self.input_sync_ref], branch, copy_ts))
                /\ i' = i + 1
                /\ UNCHANGED <<pc, ret>>
           ELSE /\ i' = i + 1
                /\ UNCHANGED <<input_files, pc, ret, overflow>>
    /\ UNCHANGED <<session, octx_uninit, copy_ts, start_at_zero, nb_input_files, files0, files1, files2>>

\* the second call returns 0
SyncAgainReturn ==
    /\ pc = "apply_sync_offsets again"
    /\ i = nb_input_files
    /\ ret' = 0
    /\ pc' = "done"
    /\ UNCHANGED <<session, octx_uninit, copy_ts, start_at_zero, nb_input_files, input_files, i, files0, files1, files2, overflow>>

NextSyncTwice ==
    CorrectStep \/ CorrectReturn \/ SyncStep \/ SyncAgain \/ SyncAgainStep \/ SyncAgainReturn

SpecSyncTwice == Init /\ [][NextSyncTwice]_vars

\* ------------------------------------ apply_sync_offsets in any order
\* the loop body of apply_sync_offsets run for an input k not yet visited,
\* whatever its index
SyncAnyStep ==
    /\ pc = "apply_sync_offsets"
    /\ \E k \in (0 .. nb_input_files - 1) \ visited :
          LET self == input_files[k]
              branch == SyncBranch(input_files, nb_input_files, k, copy_ts, start_at_zero)
          IN  /\ i' = k
              /\ visited' = visited \cup {k}
              /\ IF IsFatal(branch)
                 THEN /\ ret' = AVERROR(EINVAL)
                      /\ pc' = "done"
                      /\ octx_uninit' = octx_uninit + 1
                      /\ UNCHANGED <<input_files, overflow>>
                 ELSE IF branch \in {"realtime", "effective"}
                 THEN /\ input_files' = SyncWrite(input_files, k, branch, copy_ts)
                      /\ overflow' = (overflow \/ AdjustOverflows(self,
                                         input_files[self.input_sync_ref], branch, copy_ts))
                      /\ UNCHANGED <<pc, ret, octx_uninit>>
                 ELSE UNCHANGED <<input_files, pc, ret, overflow, octx_uninit>>
    /\ UNCHANGED <<copy_ts, start_at_zero, nb_input_files, files0, files1, files2>>
    /\ UNCHANGED <<groups, opts, inout, errmsg, filter_hw_device, hw_devices, stream_maps>>

\* every input has been visited: apply_sync_offsets returns 0
SyncAnyReturn ==
    /\ pc = "apply_sync_offsets"
    /\ visited = 0 .. nb_input_files - 1
    /\ ret' = 0
    /\ pc' = "check_filter_outputs"
    /\ UNCHANGED <<session, octx_uninit, copy_ts, start_at_zero, nb_input_files, input_files,
                   i, files0, files1, files2, overflow>>

\* Inputs for the runs in any order: the references vary, input 0 also in
\* what is known of its start times.
AnyOrderInputs(n, k) ==
    InputFiles(IF k = 0 THEN {AV_NOPTS_VALUE, 40} ELSE {40},
               {TRUE},
               {<<MpegStream(k + 1)>>},
               IF k = 0 THEN {AV_NOPTS_VALUE, 500} ELSE {500 + 10 * k},
               {IF k % 2 = 0 THEN 2 + k ELSE AV_NOPTS_VALUE},
               {5 + k},
               {5 + k},
               -2 .. n)

RECURSIVE AnyOrderRegistries(_, _)
AnyOrderRegistries(n, k) ==
    IF k = 0 THEN {[j \in {} |-> 0]}
    ELSE {[j \in 0 .. k - 1 |-> IF j = k - 1 THEN f ELSE files[j]] :
              files \in AnyOrderRegistries(n, k - 1), f \in AnyOrderInputs(n, k - 1)}

InitAnyOrder ==
    \E n \in 0 .. MaxInputs, cts \in BOOLEAN, saz \in BOOLEAN :
        \E files \in AnyOrderRegistries(n, n) : InitWith(n, files, cts, saz)

NextAnyOrder == CorrectStep \/ CorrectReturn \/ SyncAnyStep \/ SyncAnyReturn

SpecAnyOrder == InitAnyOrder /\ [][NextAnyOrder]_vars

\* ------------------------------------------------ ffmpeg_parse_options
\* ffmpeg_parse_options jumps to fail with ret and errmsg set:
\* uninit_parse_context runs and ret is returned
GotoFail(r, msg) ==
    /\ ret' = r
    /\ errmsg' = msg
    /\ octx_uninit' = octx_uninit + 1
    /\ pc' = "done"

\* split_commandline fills octx with the groups of the command line, or fails
SplitCommandline ==
    /\ pc = "split_commandline"
    /\ \E r \in {0, AVERROR(EINVAL), AVERROR(ENOMEM)} :
          IF r < 0 THEN GotoFail(r, "splitting the argument list")
          ELSE /\ ret' = r
               /\ pc' = "parse_optgroup"
               /\ UNCHANGED <<errmsg, octx_uninit>>
    /\ UNCHANGED <<copy_ts, start_at_zero, nb_input_files, input_files, i, files0, files1,
                   files2, overflow, groups, opts, inout, filter_hw_device, hw_devices,
                   stream_maps, visited>>

\* parse_optgroup(NULL, &octx.global_opts) applies -copyts and -start_at_zero;
\* then term_init and the call of open_files for the input groups
ParseGlobalOptions ==
    /\ pc = "parse_optgroup"
    /\ IF groups.global.ret < 0
       THEN /\ GotoFail(groups.global.ret, "parsing global options")
            /\ UNCHANGED <<copy_ts, start_at_zero, inout, i>>
       ELSE /\ ret' = groups.global.ret
            /\ copy_ts' = groups.global.copy_ts
            /\ start_at_zero' = groups.global.start_at_zero
            /\ pc' = "open_files"
            /\ inout' = "input"
            /\ i' = 0
            /\ UNCHANGED <<errmsg, octx_uninit>>
    /\ UNCHANGED <<nb_input_files, input_files, files0, files1, files2, overflow, groups,
                   opts, filter_hw_device, hw_devices, stream_maps, visited>>

\* errmsg of ffmpeg_parse_options after a failed open_files
OpeningFiles == [input |-> "opening input files", output |-> "opening output files"]

\* Mutant of OpenFilesParse: uninit_options left out of the error path.
OpenFilesParseLeaks ==
    /\ pc = "open_files"
    /\ i < Len(groups[inout])
    /\ LET g == groups[inout][i + 1] IN
       /\ opts' = [opts EXCEPT ![inout][i + 1] =
                       [@ EXCEPT !.init = @ + 1, !.parse = @ + 1]]
       /\ IF g.parse_ret < 0
          THEN GotoFail(g.parse_ret, OpeningFiles[inout])
          ELSE /\ ret' = g.parse_ret
               /\ pc' = "open_file"
               /\ UNCHANGED <<errmsg, octx_uninit>>
    /\ UNCHANGED <<copy_ts, start_at_zero, nb_input_files, input_files, i, files0, files1,
                   files2, overflow, groups, inout, filter_hw_device, hw_devices,
                   stream_maps, visited>>

\* open_files, first half of iteration i: init_options and parse_optgroup;
\* on failure uninit_options, and open_files returns ret
OpenFilesParse ==
    /\ pc = "open_files"
    /\ i < Len(groups[inout])
    /\ LET g == groups[inout][i + 1] IN
       /\ opts' = [opts EXCEPT ![inout][i + 1] =
                       [@ EXCEPT !.init = @ + 1, !.parse = @ + 1,
                                 !.uninit = @ + (IF g.parse_ret < 0 THEN 1 ELSE 0)]]
       /\ IF g.parse_ret < 0
          THEN GotoFail(g.parse_ret, OpeningFiles[inout])
          ELSE /\ ret' = g.parse_ret
               /\ pc' = "open_file"
               /\ UNCHANGED <<errmsg, octx_uninit>>
    /\ UNCHANGED <<copy_ts, start_at_zero, nb_input_files, input_files, i, files0, files1,
                   files2, overflow, groups, inout, filter_hw_device, hw_devices,
                   stream_maps, visited>>

\* the registry with one more input
AddInput(files, n, f) == [k \in 0 .. n |-> IF k < n THEN files[k] ELSE f]

\* Mutant of OpenFilesOpen: the result of open_file is not tested.
OpenFilesOpenUntested ==
    /\ pc = "open_file"
    /\ LET g == groups[inout][i + 1] IN
       /\ opts' = [opts EXCEPT ![inout][i + 1] =
                       [@ EXCEPT !.open = @ + 1, !.uninit = @ + 1]]
       /\ ret' = g.open_ret
       /\ i' = i + 1
       /\ pc' = "open_files"
       /\ IF inout = "input" /\ g.open_ret = 0
          THEN /\ input_files' = AddInput(input_files, nb_input_files, g.file)
               /\ nb_input_files' = nb_input_files + 1
          ELSE UNCHANGED <<input_files, nb_input_files>>
       /\ UNCHANGED <<errmsg, octx_uninit>>
    /\ UNCHANGED <<copy_ts, start_at_zero, files0, files1, files2, overflow, groups, inout,
                   filter_hw_device, hw_devices, stream_maps, visited>>

\* open_files, second half of iteration i: open_file (ifile_open adds the
\* input to input_files, of_open an output), uninit_options, and the return
\* of a failure
OpenFilesOpen ==
    /\ pc = "open_file"
    /\ LET g == groups[inout][i + 1] IN
       /\ opts' = [opts EXCEPT ![inout][i + 1] =
                       [@ EXCEPT !.open = @ + 1, !.uninit = @ + 1]]
       /\ IF g.open_ret < 0
          THEN /\ GotoFail(g.open_ret, OpeningFiles[inout])
               /\ UNCHANGED <<i, input_files, nb_input_files>>
          ELSE /\ ret' = g.open_ret
               /\ i' = i + 1
               /\ pc' = "open_files"
               /\ IF inout = "input"
                  THEN /\ input_files' = AddInput(input_files, nb_input_files, g.file)
                       /\ nb_input_files' = nb_input_files + 1
                  ELSE UNCHANGED <<input_files, nb_input_files>>
               /\ UNCHANGED <<errmsg, octx_uninit>>
    /\ UNCHANGED <<copy_ts, start_at_zero, files0, files1, files2, overflow, groups, inout,
                   filter_hw_device, hw_devices, stream_maps, visited>>

\* open_files returns 0: after the inputs init_complex_filters is next,
\* after the outputs correct_input_start_times
OpenFilesReturn ==
    /\ pc = "open_files"
    /\ i = Len(groups[inout])
    /\ ret' = 0
    /\ IF inout = "input"
       THEN /\ pc' = "init_complex_filters"
            /\ UNCHANGED <<i, files0, files1, files2>>
       ELSE /\ pc' = "correct_input_start_times"
            /\ i' = 0
            /\ files0' = input_files
            /\ files1' = input_files
            /\ files2' = input_files
    /\ UNCHANGED <<session, octx_uninit, copy_ts, start_at_zero, nb_input_files, input_files,
                   overflow>>

\* init_complex_filters (ffmpeg_filter.c) succeeds or fails; then the call
\* of open_files for the output groups
InitComplexFilters ==
    /\ pc = "init_complex_filters"
    /\ \E r \in {0, AVERROR(EINVAL), AVERROR(ENOMEM)} :
          IF r < 0
          THEN /\ GotoFail(r, "initializing complex filters")
               /\ UNCHANGED <<inout, i>>
          ELSE /\ ret' = r
               /\ pc' = "open_files"
               /\ inout' = "output"
               /\ i' = 0
               /\ UNCHANGED <<errmsg, octx_uninit>>
    /\ UNCHANGED <<copy_ts, start_at_zero, nb_input_files, input_files, files0, files1,
                   files2, overflow, groups, opts, filter_hw_device, hw_devices,
                   stream_maps, visited>>

\* what parse_optgroup and open_file return for a group
GroupRets == {0, AVERROR(EINVAL)}

\* the InputFile ifile_open makes of input group k
ParseInputs(k) ==
    InputFiles({40}, {TRUE}, {<<MpegStream(k + 1)>>}, {500 + 10 * k},
               {AV_NOPTS_VALUE}, {5 + k}, {5 + k}, {-1, 0})

InputGroups(k) == [parse_ret : GroupRets, open_ret : GroupRets, file : ParseInputs(k)]

OutputGroups(k) == [parse_ret : GroupRets, open_ret : GroupRets]

\* the lists of n input groups
RECURSIVE InputGroupLists(_)
InputGroupLists(n) ==
    IF n = 0 THEN {<<>>}
    ELSE {Append(l, g) : l \in InputGroupLists(n - 1), g \in InputGroups(n - 1)}

\* the lists of n output groups
RECURSIVE OutputGroupLists(_)
OutputGroupLists(n) ==
    IF n = 0 THEN {<<>>}
    ELSE {Append(l, g) : l \in OutputGroupLists(n - 1), g \in OutputGroups(n - 1)}

\* an OptionsContext nothing has been done to
Untouched == [init |-> 0, parse |-> 0, open |-> 0, uninit |-> 0]

\* ffmpeg_parse_options is entered: octx is zeroed, no input is open
InitParse ==
    /\ \E ni \in 0 .. MaxGroups, no \in 0 .. MaxGroups :
          \E li \in InputGroupLists(ni), lo \in OutputGroupLists(no) :
             \E cts \in BOOLEAN, r \in GroupRets :
                /\ groups = [global |-> [copy_ts |-> cts, start_at_zero |-> FALSE, ret |-> r],
                             input |-> li, output |-> lo]
                /\ opts = [input |-> [j \in 1 .. ni |-> Untouched],
                           output |-> [j \in 1 .. no |-> Untouched]]
    /\ copy_ts = FALSE
    /\ start_at_zero = FALSE
    /\ nb_input_files = 0
    /\ input_files = [j \in {} |-> 0]
    /\ pc = "split_commandline"
    /\ i = 0
    /\ ret = 0
    /\ files0 = [j \in {} |-> 0]
    /\ files1 = [j \in {} |-> 0]
    /\ files2 = [j \in {} |-> 0]
    /\ overflow = FALSE
    /\ inout = "input"
    /\ errmsg = NULL
    /\ octx_uninit = 0
    /\ filter_hw_device = NULL
    /\ hw_devices = {}
    /\ stream_maps = <<>>
    /\ visited = {}

NextParse ==
    \/ SplitCommandline \/ ParseGlobalOptions
    \/ OpenFilesParse \/ OpenFilesOpen \/ OpenFilesReturn
    \/ InitComplexFilters
    \/ CorrectStep \/ CorrectReturn \/ SyncStep \/ SyncReturn \/ CheckFilterOutputs

SpecParse == InitParse /\ [][NextParse]_vars

\* ------------------------------------------------ opt_filter_hw_device
\* hw_device_get_by_name (ffmpeg_hw.c): the device of that name, or NULL
hw_device_get_by_name(name) == IF name \in hw_devices THEN name ELSE NULL

\* Mutant of OptFilterHwDevice: the test for a device already set left out.
OptFilterHwDeviceAgain ==
    /\ pc = "parse_optgroup"
    /\ i < Len(groups.global.opts)
    /\ LET arg == groups.global.opts[i + 1] IN
       /\ filter_hw_device' = hw_device_get_by_name(arg)
       /\ ret' = IF hw_device_get_by_name(arg) = NULL THEN AVERROR(EINVAL) ELSE 0
    /\ i' = i + 1
    /\ UNCHANGED <<copy_ts, start_at_zero, nb_input_files, input_files, pc, files0, files1,
                   files2, overflow, groups, opts, inout, errmsg, octx_uninit, hw_devices,
                   stream_maps, visited>>

\* opt_filter_hw_device called for option i of the global options
OptFilterHwDevice ==
    /\ pc = "parse_optgroup"
    /\ i < Len(groups.global.opts)
    /\ LET arg == groups.global.opts[i + 1] IN
       IF filter_hw_device # NULL
       THEN /\ ret' = AVERROR(EINVAL)
            /\ UNCHANGED filter_hw_device
       ELSE /\ filter_hw_device' = hw_device_get_by_name(arg)
            /\ ret' = IF hw_device_get_by_name(arg) = NULL THEN AVERROR(EINVAL) ELSE 0
    /\ i' = i + 1
    /\ UNCHANGED <<copy_ts, start_at_zero, nb_input_files, input_files, pc, files0, files1,
                   files2, overflow, groups, opts, inout, errmsg, octx_uninit, hw_devices,
                   stream_maps, visited>>

\* device names an option can give
DeviceNames == {"cuda0", "vaapi0", "qsv0"}

\* the sequences of up to n elements of S
RECURSIVE SeqsUpTo(_, _)
SeqsUpTo(S, n) ==
    IF n = 0 THEN {<<>>}
    ELSE LET shorter == SeqsUpTo(S, n - 1)
         IN  shorter \cup {Append(l, x) : l \in {m \in shorter : Len(m) = n - 1}, x \in S}

\* a session without inputs whose global options are -filter_hw_device
\* options, some devices having been created
InitHwDevice ==
    /\ \E args \in SeqsUpTo(DeviceNames, MaxCalls) :
          groups = [global |-> [copy_ts |-> FALSE, start_at_zero |-> FALSE, ret |-> 0,
                                opts |-> args],
                    input |-> <<>>, output |-> <<>>]
    /\ hw_devices \in SUBSET DeviceNames
    /\ filter_hw_device = NULL
    /\ copy_ts = FALSE
    /\ start_at_zero = FALSE
    /\ nb_input_files = 0
    /\ input_files = [j \in {} |-> 0]
    /\ pc = "parse_optgroup"
    /\ i = 0
    /\ ret = 0
    /\ files0 = [j \in {} |-> 0]
    /\ files1 = [j \in {} |-> 0]
    /\ files2 = [j \in {} |-> 0]
    /\ overflow = FALSE
    /\ opts = NoOptions
    /\ inout = "input"
    /\ errmsg = NULL
    /\ octx_uninit = 0
    /\ stream_maps = <<>>
    /\ visited = {}

SpecHwDevice == InitHwDevice /\ [][OptFilterHwDevice]_vars

\* -------------------------------------------------------------- opt_map
\* Arguments are strings, as sequences of characters. Allocations (av_strdup,
\* GROW_ARRAY, av_get_token) are taken to succeed.
Digits == {"0", "1", "2", "3", "4", "5", "6", "7", "8", "9"}

DigitValue(c) ==
    CASE c = "0" -> 0 [] c = "1" -> 1 [] c = "2" -> 2 [] c = "3" -> 3 [] c = "4" -> 4
      [] c = "5" -> 5 [] c = "6" -> 6 [] c = "7" -> 7 [] c = "8" -> 8 [] c = "9" -> 9

\* strchr: the index of the first c in str, 0 when there is none
strchr(str, c) ==
    IF \E j \in 1 .. Len(str) : str[j] = c
    THEN CHOOSE j \in 1 .. Len(str) : str[j] = c /\ \A m \in 1 .. j - 1 : str[m] # c
    ELSE 0

\* str cut at its first c (`*p = 0`), whole when there is none
CutAt(str, c) == IF strchr(str, c) = 0 THEN str ELSE SubSeq(str, 1, strchr(str, c) - 1)

\* the number of digits str has from index j on
RECURSIVE DigitRun(_, _)
DigitRun(str, j) ==
    IF j <= Len(str) /\ str[j] \in Digits THEN 1 + DigitRun(str, j + 1) ELSE 0

\* the value of the decimal digits str[j .. j + n - 1]
RECURSIVE DigitsValue(_, _, _)
DigitsValue(str, j, n) ==
    IF n = 0 THEN 0
    ELSE 10 * DigitsValue(str, j, n - 1) + DigitValue(str[j + n - 1])

\* strtol(map, &p, 0) on decimal input: an optional sign and digits; without
\* digits the value is 0 and p is map
strtol(str) ==
    LET signed == Len(str) > 0 /\ str[1] \in {"-", "+"}
        first == IF signed THEN 2 ELSE 1
        n == DigitRun(str, first)
        magnitude == DigitsValue(str, first, n)
    IN  IF n = 0 THEN [value |-> 0, p |-> str]
        ELSE [value |-> IF signed /\ str[1] = "-" THEN 0 - magnitude ELSE magnitude,
              p |-> SubSeq(str, first + n, Len(str))]

\* check_stream_specifier (cmdutils.c) for the specifiers used here: the
\* empty one matches every stream, a stream index that stream, anything
\* else is an error
check_stream_specifier(stream_index, spec) ==
    IF spec = <<>> THEN 1
    ELSE IF Len(spec) = DigitRun(spec, 1)
         THEN IF DigitsValue(spec, 1, Len(spec)) = stream_index THEN 1 ELSE 0
         ELSE AVERROR(EINVAL)

\* a StreamMap as GROW_ARRAY adds it: zeroed
ZeroMap == [file_index |-> 0, stream_index |-> 0, disabled |-> FALSE, linklabel |-> NULL]

\* the loop of a negative map: the entries of file_idx matching spec are
\* disabled
DisableMaps(maps, file_idx, spec) ==
    [j \in 1 .. Len(maps) |->
        IF /\ file_idx = maps[j].file_index
           /\ check_stream_specifier(maps[j].stream_index, spec) > 0
        THEN [maps[j] EXCEPT !.disabled = TRUE]
        ELSE maps[j]]

\* the loop of a positive map from stream st on: an entry is added for each
\* stream of the file that matches spec and is not discarded by the user
RECURSIVE AddMaps(_, _, _, _, _)
AddMaps(maps, file, file_idx, spec, st) ==
    IF st >= Len(file.streams) THEN maps
    ELSE IF check_stream_specifier(st, spec) <= 0
              \/ file.streams[st + 1].user_set_discard = "all"
         THEN AddMaps(maps, file, file_idx, spec, st + 1)
         ELSE AddMaps(Append(maps, [ZeroMap EXCEPT !.file_index = file_idx,
                                                   !.stream_index = st]),
                      file, file_idx, spec, st + 1)

\* opt_map(o, "map", arg): the return value and o->stream_maps after it; whether
\* the unmatched streams were disabled by the user only changes the message
opt_map(maps, arg) ==
    LET negative == Len(arg) > 0 /\ arg[1] = "-"
        map == CutAt(IF negative THEN Tail(arg) ELSE arg, ",")
    IN  IF Len(map) > 0 /\ map[1] = "["
        THEN [ret |-> 0,
              maps |-> Append(maps, [ZeroMap EXCEPT !.linklabel = CutAt(Tail(map), "]")])]
        ELSE LET allow_unused == strchr(map, "?") # 0
                 map1 == CutAt(map, "?")
                 file_idx == strtol(map1).value
                 p == strtol(map1).p
                 spec == IF Len(p) > 0 /\ p[1] = ":" THEN Tail(p) ELSE p
             IN  IF file_idx >= nb_input_files \/ file_idx < 0
                 THEN [ret |-> AVERROR(EINVAL), maps |-> maps]
                 ELSE LET after == IF negative THEN DisableMaps(maps, file_idx, spec)
                                   ELSE AddMaps(maps, input_files[file_idx], file_idx, spec, 0)
                          m == IF negative THEN Len(maps) > 0 ELSE Len(after) > Len(maps)
                      IN  [ret |-> IF m \/ allow_unused THEN 0 ELSE AVERROR(EINVAL),
                           maps |-> after]

\* parse_optgroup calls opt_map for option i of the output group
OptMap ==
    /\ pc = "parse_optgroup"
    /\ i < Len(groups.output[1].opts)
    /\ LET done == opt_map(stream_maps, groups.output[1].opts[i + 1]) IN
       /\ ret' = done.ret
       /\ stream_maps' = done.maps
    /\ i' = i + 1
    /\ UNCHANGED <<copy_ts, start_at_zero, nb_input_files, input_files, pc, files0, files1,
                   files2, overflow, groups, opts, inout, errmsg, octx_uninit,
                   filter_hw_device, hw_devices, visited>>

\* arguments of -map: all streams of a file, one stream, with `?`, with a
\* deprecated sync stream, negative ones, link labels, bad file indexes
MapArgs ==
    {<<"0">>, <<"1">>, <<"0", ":", "1">>, <<"0", ":", "5", "?">>, <<"1", ",", "0">>,
     <<"-", "0">>, <<"-", "0", ":", "1">>, <<"-", "1">>,
     <<"[", "a", "]">>, <<"-", "[", "a", "]">>,
     <<"2">>, <<"-", "2">>, <<"-", "-", "1">>}

\* a stream of an input with what the user set with -discard
MapStream(t, d) ==
    [discard |-> "none", start_time |-> t, time_base |-> [num |-> 1, den |-> 90000],
     user_set_discard |-> d]

\* two inputs are open, of two streams and one; an output group with -map
\* options is being parsed
InitMap ==
    /\ \E args \in SeqsUpTo(MapArgs, MaxCalls) :
          groups = [global |-> [copy_ts |-> FALSE, start_at_zero |-> FALSE, ret |-> 0],
                    input |-> <<>>, output |-> <<[opts |-> args]>>]
    /\ nb_input_files = 2
    /\ \E d \in {"none", "all"} :
          \E f0 \in InputFiles({40}, {TRUE}, {<<MapStream(1, "none"), MapStream(2, d)>>},
                               {500}, {AV_NOPTS_VALUE}, {0}, {0}, {-1}),
             f1 \in InputFiles({40}, {TRUE}, {<<MapStream(1, "none")>>},
                               {510}, {AV_NOPTS_VALUE}, {0}, {0}, {-1}) :
             input_files = [k \in 0 .. 1 |-> IF k = 0 THEN f0 ELSE f1]
    /\ files0 = input_files
    /\ files1 = input_files
    /\ files2 = input_files
    /\ stream_maps = <<>>
    /\ copy_ts = FALSE
    /\ start_at_zero = FALSE
    /\ pc = "parse_optgroup"
    /\ i = 0
    /\ ret = 0
    /\ overflow = FALSE
    /\ opts = NoOptions
    /\ inout = "output"
    /\ errmsg = NULL
    /\ octx_uninit = 0
    /\ filter_hw_device = NULL
    /\ hw_devices = {}
    /\ visited = {}

SpecMap == InitMap /\ [][OptMap]_vars

\* ================================================================== claims
\* Input k as correct_input_start_times left it (iteration k has run).
Corrected(k) == k < nb_input_files /\ (pc # "correct_input_start_times" \/ k < i)

AfterCorrect(k) == IF pc = "correct_input_start_times" THEN input_files[k] ELSE files1[k]

\* The start times, in microseconds, of the streams of f that are neither
\* AVDISCARD_ALL nor of unknown start time.
EligibleTimes(f) ==
    {av_rescale_q(f.streams[j].start_time, f.streams[j].time_base, AV_TIME_BASE_Q) :
        j \in {m \in 1 .. Len(f.streams) :
                  f.streams[m].discard # "all" /\ f.streams[m].start_time # AV_NOPTS_VALUE}}

SetMin(S) == CHOOSE x \in S : \A y \in S : x <= y

\* the streams of f that are AVDISCARD_ALL or of unknown start time
Ineligible(f) ==
    {m \in 1 .. Len(f.streams) :
        f.streams[m].discard = "all" \/ f.streams[m].start_time = AV_NOPTS_VALUE}

\* C1: after correct_input_start_times, every input with the discontinuity
\* flag, a known format start time and at least one stream that is neither
\* DiscardAll nor of unknown start time has start_time_effective equal to the
\* minimum of those streams' start times converted to microseconds;
\* discarded and unknown streams do not enter the minimum.
C1_EffectiveIsMinimum ==
    \A k \in 0 .. nb_input_files - 1 :
        (/\ Corrected(k)
         /\ files0[k].ts_discont
         /\ files0[k].ctx_start_time # AV_NOPTS_VALUE
         /\ EligibleTimes(files0[k]) # {})
        => AfterCorrect(k).start_time_effective = SetMin(EligibleTimes(files0[k]))

\* C1 witness: a corrected input with two eligible streams in different
\* time bases whose converted start times differ, the later one first; the
\* effective start time is the smaller and is not the format start time.
C1_Witness ==
    /\ Corrected(0)
    /\ files0[0].ts_discont
    /\ files0[0].ctx_start_time # AV_NOPTS_VALUE
    /\ Len(files0[0].streams) = 2
    /\ Ineligible(files0[0]) = {}
    /\ files0[0].streams[1].time_base # files0[0].streams[2].time_base
    /\ av_rescale_q(files0[0].streams[2].start_time,
                    files0[0].streams[2].time_base, AV_TIME_BASE_Q)
          < av_rescale_q(files0[0].streams[1].start_time,
                         files0[0].streams[1].time_base, AV_TIME_BASE_Q)
    /\ AfterCorrect(0).start_time_effective = SetMin(EligibleTimes(files0[0]))
    /\ AfterCorrect(0).start_time_effective # files0[0].ctx_start_time

\* C2: after correct_input_start_times, every input without the
\* discontinuity flag, or with an unknown format start time, has
\* start_time_effective equal to its format start time and the ts_offset it
\* had before the pass.
C2_UncorrectedIdentity ==
    \A k \in 0 .. nb_input_files - 1 :
        (Corrected(k) /\ (~files0[k].ts_discont \/ files0[k].ctx_start_time = AV_NOPTS_VALUE))
        => /\ AfterCorrect(k).start_time_effective = files0[k].ctx_start_time
           /\ AfterCorrect(k).ts_offset = files0[k].ts_offset

\* C2 witness: a corrected input without the flag whose eligible streams
\* start elsewhere than the format does, and one with unknown format start.
C2_Witness ==
    /\ Corrected(0)
    /\ ~files0[0].ts_discont
    /\ files0[0].ctx_start_time # AV_NOPTS_VALUE
    /\ EligibleTimes(files0[0]) # {}
    /\ SetMin(EligibleTimes(files0[0])) # files0[0].ctx_start_time
    /\ AfterCorrect(0).start_time_effective = files0[0].ctx_start_time
    /\ files0[0].start_time_effective # files0[0].ctx_start_time

\* C3: after correct_input_start_times, an input with the discontinuity
\* flag and a known format start time but no eligible stream is unmodified:
\* start_time_effective is the format start time and ts_offset is unchanged
\* (stated of the runs in which no signed operation has overflowed).
C3_NoEligibleStreamUnmodified ==
    \A k \in 0 .. nb_input_files - 1 :
        (/\ Corrected(k)
         /\ ~overflow
         /\ files0[k].ts_discont
         /\ files0[k].ctx_start_time # AV_NOPTS_VALUE
         /\ EligibleTimes(files0[k]) = {})
        => /\ AfterCorrect(k).start_time_effective = files0[k].ctx_start_time
           /\ AfterCorrect(k).ts_offset = files0[k].ts_offset

\* ------------------------------------------------- apply_sync_offsets
\* Iteration k of apply_sync_offsets has run without returning.
Synced(k) ==
    /\ k < nb_input_files
    /\ pc \in {"apply_sync_offsets", "check_filter_outputs", "done"}
    /\ k < i

\* apply_sync_offsets returned AVERROR(EINVAL) from iteration k.
SyncFailedAt(k) == pc = "done" /\ i < nb_input_files /\ i = k

\* apply_sync_offsets returned 0.
SyncReturnedZero == pc \in {"check_filter_outputs", "done"} /\ i = nb_input_files

Inputs == 0 .. nb_input_files - 1

RefOf(k) == files1[k].input_sync_ref

\* k refers to another input of the registry
ActiveRef(k) == RefOf(k) \in Inputs /\ RefOf(k) # k

\* the input k refers to has no reference, or refers to itself
NotChained(k) == RefOf(RefOf(k)) \in {-1, RefOf(k)}

FlagsAllowSync == ~(copy_ts /\ ~start_at_zero)

BothRealtime(k) ==
    /\ files1[k].start_time_realtime # AV_NOPTS_VALUE
    /\ files1[RefOf(k)].start_time_realtime # AV_NOPTS_VALUE

BothEffective(k) ==
    /\ files1[k].start_time_effective # AV_NOPTS_VALUE
    /\ files1[RefOf(k)].start_time_effective # AV_NOPTS_VALUE

UserStartOrZero(f) == IF f.start_time = AV_NOPTS_VALUE THEN 0 ELSE f.start_time

\* (selfStart - refStart) + (copy_ts ? 0 : 1) * (selfSeekStart - refSeekStart)
StartDifference(k, selfStart, refStart) ==
    (selfStart - refStart)
    + (IF copy_ts THEN 0
       ELSE UserStartOrZero(files1[k]) - UserStartOrZero(files1[RefOf(k)]))

PairDifference(k) ==
    IF BothRealtime(k)
    THEN StartDifference(k, files1[k].start_time_realtime,
                         files1[RefOf(k)].start_time_realtime)
    ELSE StartDifference(k, files1[k].start_time_effective,
                         files1[RefOf(k)].start_time_effective)

\* C4 as claimed: an input with an in-range, non-self, non-chained reference
\* r and a comparable start-time pair ends with its ts_offset increased by
\* (selfStart - refStart) + (copy_ts ? 0 : 1) * (selfSeekStart - refSeekStart)
\* + the ts_offset of r as the corrector left it.
C4_AdjustmentAddsRefTsOffset ==
    \A k \in Inputs :
        (Synced(k) /\ ActiveRef(k) /\ NotChained(k) /\ (BothRealtime(k) \/ BothEffective(k)))
        => input_files[k].ts_offset =
               files1[k].ts_offset + PairDifference(k) + files1[RefOf(k)].ts_offset

\* C4 amended: the last term is the user-supplied input_ts_offset of r, not
\* r's ts_offset: the ts_offset of the input ends increased by
\* (selfStart - refStart) + (copy_ts ? 0 : 1) * (selfSeekStart - refSeekStart)
\* + r's input_ts_offset.
C4_AdjustmentAddsRefUserOffset ==
    \A k \in Inputs :
        (Synced(k) /\ ActiveRef(k) /\ NotChained(k) /\ (BothRealtime(k) \/ BothEffective(k)))
        => input_files[k].ts_offset =
               files1[k].ts_offset + PairDifference(k) + files1[RefOf(k)].input_ts_offset

\* C4 witness: with copy_ts off, an input is synchronised to a reference
\* whose seek start differs from its own and whose ts_offset, rewritten by
\* the corrector, is not its user offset.
C4_Witness ==
    \E k \in Inputs :
        /\ Synced(k) /\ ActiveRef(k) /\ NotChained(k) /\ BothEffective(k)
        /\ ~BothRealtime(k)
        /\ ~copy_ts
        /\ UserStartOrZero(files1[k]) # UserStartOrZero(files1[RefOf(k)])
        /\ files1[RefOf(k)].ts_offset # files0[RefOf(k)].ts_offset
        /\ files1[RefOf(k)].ts_offset # files1[RefOf(k)].input_ts_offset
        /\ input_files[k].ts_offset # files1[k].ts_offset

\* C5: when some input's sync reference is >= nb_input_files or < -1,
\* apply_sync_offsets does not return 0 and ffmpeg_parse_options returns
\* AVERROR(EINVAL); and with flags that allow synchronisation a failure at
\* input k means k's reference is out of range, so -1 and k itself never are.
C5_OutOfRangeIsFatal ==
    /\ (\E k \in Inputs : RefOf(k) >= nb_input_files \/ RefOf(k) < -1)
       => (~SyncReturnedZero /\ (pc = "done" => ret = AVERROR(EINVAL)))
    /\ \A k \in Inputs :
          (SyncFailedAt(k) /\ FlagsAllowSync)
          => (RefOf(k) >= nb_input_files \/ RefOf(k) < -1) /\ RefOf(k) # -1 /\ RefOf(k) # k

\* C5 witness: the pass has failed at an input whose reference is -2, after
\* passing an input that refers to itself and one that refers to no input.
C5_Witness ==
    /\ FlagsAllowSync
    /\ nb_input_files = 3
    /\ RefOf(0) = 0 /\ RefOf(1) = -1 /\ RefOf(2) = -2
    /\ SyncFailedAt(2)
    /\ ret = AVERROR(EINVAL)

\* C6 as claimed: when apply_sync_offsets fails on a reference
\* >= nb_input_files, every input's ts_offset is the one it had when
\* apply_sync_offsets was called.
C6_FailureMutatesNothing ==
    \A k \in Inputs :
        (SyncFailedAt(k) /\ RefOf(k) >= nb_input_files)
        => \A m \in Inputs : input_files[m].ts_offset = files1[m].ts_offset

\* C6 amended: when apply_sync_offsets fails on a reference
\* >= nb_input_files at input k, the ts_offset of k and of every input after
\* k is the one it had when apply_sync_offsets was called; the inputs before
\* k keep the adjustments already made.
C6_FailureLeavesLaterInputs ==
    \A k \in Inputs :
        (SyncFailedAt(k) /\ RefOf(k) >= nb_input_files)
        => \A m \in Inputs : m >= k => input_files[m].ts_offset = files1[m].ts_offset

\* C6 witness: the pass failed at input 1 on such a reference after
\* adjusting input 0 to input 2.
C6_Witness ==
    /\ nb_input_files = 3
    /\ SyncFailedAt(1)
    /\ RefOf(1) >= nb_input_files
    /\ RefOf(0) = 2
    /\ input_files[0].ts_offset # files1[0].ts_offset
    /\ input_files[2].ts_offset = files1[2].ts_offset

\* C7: with copy_ts set and start_at_zero clear, apply_sync_offsets fails
\* with AVERROR(EINVAL) whenever some input has an in-range, non-self
\* reference; and when every input's reference is -1 or itself it returns 0
\* under every combination of the flags.
C7_CopytsNeedsStartAtZero ==
    /\ (copy_ts /\ ~start_at_zero /\ (\E k \in Inputs : ActiveRef(k)))
       => (~SyncReturnedZero /\ (pc = "done" => ret = AVERROR(EINVAL)))
    /\ (\A k \in Inputs : RefOf(k) \in {-1, k})
       => /\ \A k \in Inputs : ~SyncFailedAt(k)
          /\ (pc = "check_filter_outputs" => ret = 0)

\* C7 witness: copy_ts without start_at_zero, and the pass has failed at an
\* input whose in-range reference is itself resynced.
C7_Witness ==
    /\ copy_ts /\ ~start_at_zero
    /\ \E k \in Inputs :
          /\ SyncFailedAt(k)
          /\ ActiveRef(k)
          /\ ~NotChained(k)
          /\ \A m \in 0 .. k - 1 : RefOf(m) \in {-1, m}
          /\ k > 0
    /\ ret = AVERROR(EINVAL)

\* the running iteration of apply_sync_offsets is about input i
SyncAt == pc = "apply_sync_offsets" /\ i < nb_input_files

\* the running iteration ends with `continue` and no write: the loop goes on
\* to the next input, nothing returned, no input changed
ContinuesUnchanged ==
    /\ pc' = "apply_sync_offsets"
    /\ i' = i + 1
    /\ ret' = ret
    /\ input_files' = input_files

\* X refers to an in-range input whose own reference is neither -1 nor itself
ChainedRef(k) == RefOf(k) \in Inputs /\ RefOf(RefOf(k)) \notin {-1, RefOf(k)}

\* C8: with flags that satisfy the copy_ts/start_at_zero precondition, an
\* input X whose in-range reference Y is itself resynced (Y's reference is
\* neither -1 nor Y) keeps its ts_offset, the pass does not fail at X, and
\* the iteration about X hands over to the next input with nothing changed.
C8_ChainedIsSkipped ==
    /\ [](\A k \in Inputs :
             (FlagsAllowSync /\ ChainedRef(k))
             => /\ ~SyncFailedAt(k)
                /\ Synced(k) => input_files[k].ts_offset = files1[k].ts_offset)
    /\ [][(SyncAt /\ FlagsAllowSync /\ ChainedRef(i)) => ContinuesUnchanged]_vars

\* C8 witness: input 0 refers to input 1, which refers to input 2; input 0
\* was skipped and input 1, after it, has been adjusted.
C8_Witness ==
    /\ nb_input_files = 3
    /\ RefOf(0) = 1 /\ RefOf(1) = 2 /\ RefOf(2) = -1
    /\ Synced(1)
    /\ input_files[0].ts_offset = files1[0].ts_offset
    /\ input_files[1].ts_offset # files1[1].ts_offset

\* C9: for an input with an in-range, non-self, non-chained reference the
\* start-time pair is start_time_realtime of both when both are known,
\* otherwise start_time_effective of both when both are known, otherwise
\* there is none: then ts_offset is unchanged, the pass does not fail at the
\* input and goes on to the next one. The adjustment never pairs one
\* input's realtime with the other's effective start time.
C9_StartTimePair ==
    /\ [](\A k \in Inputs :
             (ActiveRef(k) /\ NotChained(k) /\ FlagsAllowSync)
             => /\ ~SyncFailedAt(k)
                /\ Synced(k) =>
                      input_files[k].ts_offset - files1[k].ts_offset =
                          IF BothRealtime(k)
                          THEN StartDifference(k, files1[k].start_time_realtime,
                                               files1[RefOf(k)].start_time_realtime)
                               + files1[RefOf(k)].input_ts_offset
                          ELSE IF BothEffective(k)
                          THEN StartDifference(k, files1[k].start_time_effective,
                                               files1[RefOf(k)].start_time_effective)
                               + files1[RefOf(k)].input_ts_offset
                          ELSE 0)
    /\ [][(/\ SyncAt /\ FlagsAllowSync /\ ActiveRef(i) /\ NotChained(i)
           /\ ~BothRealtime(i) /\ ~BothEffective(i))
          => ContinuesUnchanged]_vars

\* C9 witness: input 0 knows its realtime but not its effective start time,
\* its reference, input 1, the effective but not the realtime one; the
\* iteration has run without adjustment, and input 2 has then been adjusted
\* to input 1 from their effective start times.
C9_Witness ==
    /\ nb_input_files = 3
    /\ RefOf(0) = 1 /\ RefOf(1) = -1 /\ RefOf(2) = 1
    /\ Synced(2)
    /\ files1[0].start_time_realtime # AV_NOPTS_VALUE
    /\ files1[0].start_time_effective = AV_NOPTS_VALUE
    /\ files1[1].start_time_realtime = AV_NOPTS_VALUE
    /\ files1[1].start_time_effective # AV_NOPTS_VALUE
    /\ input_files[0].ts_offset = files1[0].ts_offset
    /\ ~BothRealtime(2) /\ BothEffective(2)
    /\ input_files[2].ts_offset # files1[2].ts_offset

\* C10: an input whose reference is -1 or its own index keeps its ts_offset
\* through apply_sync_offsets and the pass never fails at it, whatever
\* copy_ts and start_at_zero are: its iteration hands over to the next input
\* with nothing changed.
C10_NoReferenceIsNoOp ==
    /\ [](\A k \in Inputs :
             RefOf(k) \in {-1, k}
             => /\ ~SyncFailedAt(k)
                /\ Synced(k) => input_files[k].ts_offset = files1[k].ts_offset)
    /\ [][(SyncAt /\ input_files[i].input_sync_ref \in {-1, i}) => ContinuesUnchanged]_vars

\* C10 witness: copy_ts without start_at_zero; the pass has gone through an
\* input without reference and one that refers to itself, and returned 0.
C10_Witness ==
    /\ copy_ts /\ ~start_at_zero
    /\ nb_input_files = 2
    /\ RefOf(0) = -1 /\ RefOf(1) = 1
    /\ Synced(1)
    /\ pc = "check_filter_outputs"
    /\ ret = 0
    /\ input_files[1].ts_offset = files1[1].ts_offset

\* ------------------------------------------- offsets of the corrector
\* Input k has the discontinuity flag and a known format start time.
EligibleInput(k) == files0[k].ts_discont /\ files0[k].ctx_start_time # AV_NOPTS_VALUE

\* The effective start time correct_input_start_times gave input k.
NewEffectiveStart(k) == AfterCorrect(k).start_time_effective

\* Input k was corrected with a nonzero difference: its new effective start
\* time is not its format start time.
NonzeroDifference(k) ==
    EligibleInput(k) /\ NewEffectiveStart(k) # files0[k].ctx_start_time

Max(a, b) == IF a > b THEN a ELSE b

\* The format start time of f plus the user's start time when one is set.
AbsoluteStartSeek(f) == f.ctx_start_time + UserStartOrZero(f)

\* C11 as stated: with copy_ts and start_at_zero set, every eligible input
\* whose new effective start time is T ends with ts_offset = -T +
\* input_ts_offset, whatever ts_offset held before the pass.
C11_EveryEligibleInputIsOffset ==
    \A k \in 0 .. nb_input_files - 1 :
        (Corrected(k) /\ copy_ts /\ start_at_zero /\ EligibleInput(k))
        => AfterCorrect(k).ts_offset
              = 0 - NewEffectiveStart(k) + files0[k].input_ts_offset

\* C11 amended: with copy_ts and start_at_zero set, every eligible input
\* whose new effective start time T differs from its format start time ends
\* with ts_offset = -T + input_ts_offset, whatever ts_offset held before;
\* when T is the format start time, ts_offset is left as it was.
C11_NonzeroDifferenceIsOffset ==
    \A k \in 0 .. nb_input_files - 1 :
        (Corrected(k) /\ copy_ts /\ start_at_zero /\ EligibleInput(k))
        => AfterCorrect(k).ts_offset
              = IF NonzeroDifference(k)
                THEN 0 - NewEffectiveStart(k) + files0[k].input_ts_offset
                ELSE files0[k].ts_offset

\* C11 witness: copy_ts and start_at_zero; input 0 has been corrected to a
\* start time other than its format start time, and its ts_offset, which
\* was something else, is now -T plus a nonzero input_ts_offset.
C11_Witness ==
    /\ copy_ts /\ start_at_zero
    /\ Corrected(0)
    /\ NonzeroDifference(0)
    /\ EligibleTimes(files0[0]) # {}
    /\ files0[0].input_ts_offset # 0
    /\ AfterCorrect(0).ts_offset # files0[0].ts_offset
    /\ AfterCorrect(0).ts_offset = 0 - NewEffectiveStart(0) + files0[0].input_ts_offset

\* C12: with copy_ts off, every input corrected with a nonzero difference
\* ends with ts_offset = -max(absolute start seek, new effective start time)
\* + input_ts_offset, the absolute start seek being the format start time
\* plus the user's start time when one is set.
C12_NoCopytsOffsetIsMax ==
    \A k \in 0 .. nb_input_files - 1 :
        (Corrected(k) /\ ~copy_ts /\ NonzeroDifference(k))
        => AfterCorrect(k).ts_offset
              = 0 - Max(AbsoluteStartSeek(files0[k]), NewEffectiveStart(k))
                + files0[k].input_ts_offset

\* C12 witness: copy_ts off; input 0 has a user start time that lifts its
\* absolute start seek above both its format start time and its new
\* effective start time, which differ; ts_offset is minus the absolute
\* start seek plus input_ts_offset.
C12_Witness ==
    /\ ~copy_ts
    /\ Corrected(0)
    /\ NonzeroDifference(0)
    /\ files0[0].start_time # AV_NOPTS_VALUE
    /\ files0[0].ctx_start_time < AbsoluteStartSeek(files0[0])
    /\ NewEffectiveStart(0) < AbsoluteStartSeek(files0[0])
    /\ AfterCorrect(0).ts_offset
          = 0 - AbsoluteStartSeek(files0[0]) + files0[0].input_ts_offset

\* C13: with copy_ts on and start_at_zero off, every input corrected with a
\* nonzero difference ends with ts_offset = input_ts_offset; and whatever the
\* flags, the ts_offset of such an input is the offset derived for the flag
\* case plus input_ts_offset.
C13_UserOffsetIsAdded ==
    \A k \in 0 .. nb_input_files - 1 :
        (Corrected(k) /\ NonzeroDifference(k))
        => /\ (copy_ts /\ ~start_at_zero)
                  => AfterCorrect(k).ts_offset = files0[k].input_ts_offset
           /\ AfterCorrect(k).ts_offset - files0[k].input_ts_offset
                 = IF copy_ts /\ start_at_zero THEN 0 - NewEffectiveStart(k)
                   ELSE IF ~copy_ts
                        THEN 0 - Max(AbsoluteStartSeek(files0[k]), NewEffectiveStart(k))
                        ELSE 0

\* C13 witness: copy_ts without start_at_zero; input 0 has been corrected
\* with a nonzero difference and its ts_offset, which was something else, is
\* its nonzero input_ts_offset.
C13_Witness ==
    /\ copy_ts /\ ~start_at_zero
    /\ Corrected(0)
    /\ NonzeroDifference(0)
    /\ files0[0].input_ts_offset # 0
    /\ files0[0].ts_offset # files0[0].input_ts_offset
    /\ AfterCorrect(0).ts_offset = files0[0].input_ts_offset

\* C14: an eligible input whose minimum eligible stream start time equals
\* its format start time keeps the ts_offset it had, and its
\* start_time_effective is the format start time.
C14_ZeroDeltaLeavesOffset ==
    \A k \in 0 .. nb_input_files - 1 :
        (/\ Corrected(k)
         /\ EligibleInput(k)
         /\ EligibleTimes(files0[k]) # {}
         /\ SetMin(EligibleTimes(files0[k])) = files0[k].ctx_start_time)
        => /\ AfterCorrect(k).ts_offset = files0[k].ts_offset
           /\ AfterCorrect(k).start_time_effective = files0[k].ctx_start_time

\* C14 witness: input 0 is eligible, its earliest eligible stream starts at
\* the format start time, its ts_offset differs from every value a
\* correction would have written, and the iteration has left it alone.
C14_Witness ==
    /\ Corrected(0)
    /\ EligibleInput(0)
    /\ EligibleTimes(files0[0]) # {}
    /\ SetMin(EligibleTimes(files0[0])) = files0[0].ctx_start_time
    /\ files0[0].ts_offset # 0 - files0[0].ctx_start_time + files0[0].input_ts_offset
    /\ files0[0].ts_offset # files0[0].input_ts_offset
    /\ AfterCorrect(0).ts_offset = files0[0].ts_offset
    /\ AfterCorrect(0).start_time_effective = files0[0].ctx_start_time

\* --------------------------------------------------- a pass run twice
\* Iteration k of the second call of correct_input_start_times has run.
CorrectedAgain(k) ==
    /\ k < nb_input_files
    /\ \/ pc = "correct_input_start_times again" /\ k < i
       \/ pc = "done"

\* C15: a second call of correct_input_start_times right after the first
\* leaves start_time_effective and ts_offset of every input at the values
\* the first call gave them, for every registry and flag combination.
C15_CorrectorIsIdempotent ==
    \A k \in 0 .. nb_input_files - 1 :
        CorrectedAgain(k)
        => /\ input_files[k].start_time_effective = files2[k].start_time_effective
           /\ input_files[k].ts_offset = files2[k].ts_offset

\* C15 witness: the first call moved input 0's effective start time off the
\* format start time and rewrote its ts_offset; the second call has run over
\* input 0 and both fields are as the first call left them.
C15_Witness ==
    /\ CorrectedAgain(0)
    /\ files2[0].start_time_effective # files0[0].ctx_start_time
    /\ EligibleTimes(files0[0]) # {}
    /\ files2[0].ts_offset # files0[0].ts_offset
    /\ files2[0].ts_offset # files0[0].input_ts_offset
    /\ input_files[0].start_time_effective = files2[0].start_time_effective
    /\ input_files[0].ts_offset = files2[0].ts_offset

\* Iteration k of the second call of apply_sync_offsets has run.
SyncedAgain(k) ==
    /\ k < nb_input_files
    /\ \/ pc = "apply_sync_offsets again" /\ k < i
       \/ pc = "done" /\ i = nb_input_files

\* C16 as stated: a second call of apply_sync_offsets over the same
\* registry leaves every input's ts_offset at its value after the first.
C16_SyncIsIdempotent ==
    \A k \in 0 .. nb_input_files - 1 :
        SyncedAgain(k) => input_files[k].ts_offset = files2[k].ts_offset

\* C16 amended: apply_sync_offsets accumulates; a second call over the same
\* registry adds to every input's ts_offset what the first call added, so
\* only the inputs the first call left alone keep their value.
C16_SyncAccumulates ==
    \A k \in 0 .. nb_input_files - 1 :
        SyncedAgain(k)
        => input_files[k].ts_offset - files2[k].ts_offset
              = files2[k].ts_offset - files1[k].ts_offset

\* C16 witness: the first call adjusted input 1 and left input 0 alone; the
\* second call has run over both, input 1 has been moved again by the same
\* amount and input 0 is still where it was.
C16_Witness ==
    /\ nb_input_files >= 2
    /\ SyncedAgain(1)
    /\ files2[1].ts_offset # files1[1].ts_offset
    /\ files2[0].ts_offset = files1[0].ts_offset
    /\ input_files[1].ts_offset # files2[1].ts_offset
    /\ input_files[1].ts_offset - files2[1].ts_offset
          = files2[1].ts_offset - files1[1].ts_offset
    /\ input_files[0].ts_offset = files2[0].ts_offset

\* ------------------------------------------------ ffmpeg_parse_options
\* The effective start time correct_input_start_times owes input f, which
\* has an eligible stream whenever it is eligible itself.
ExpectedEffective(f) ==
    IF f.ts_discont /\ f.ctx_start_time # AV_NOPTS_VALUE
    THEN SetMin(EligibleTimes(f))
    ELSE f.ctx_start_time

\* C17: ffmpeg_parse_options runs correct_input_start_times once, one
\* iteration per input in index order, and enters apply_sync_offsets only
\* when it has gone through all of them; neither pass is entered again; and
\* from then on every input's start_time_effective is the corrector's value,
\* which apply_sync_offsets never writes, not the value found before it.
C17_CorrectorThenSynchronizer ==
    /\ [](pc # "correct_input_start_times"
          => \A k \in Inputs :
                (EligibleInput(k) => EligibleTimes(files0[k]) # {})
                => /\ files1[k].start_time_effective = ExpectedEffective(files0[k])
                   /\ input_files[k].start_time_effective = files1[k].start_time_effective)
    /\ [][(pc = "correct_input_start_times" /\ pc' = pc)
             => /\ i' = i + 1
                /\ \A k \in Inputs : k # i => input_files'[k] = input_files[k]]_vars
    /\ [][(pc' = "apply_sync_offsets" /\ pc # pc')
             => (pc = "correct_input_start_times" /\ i = nb_input_files /\ i' = 0)]_vars
    /\ [][(pc # "correct_input_start_times") => (pc' # "correct_input_start_times")]_vars
    /\ [][(pc \in {"check_filter_outputs", "done"}) => (pc' # "apply_sync_offsets")]_vars
    /\ [][(pc = "apply_sync_offsets" /\ pc' = pc) => i' = i + 1]_vars

\* C17 witness: two inputs whose effective start times the corrector has
\* set, both different from what they held before it; apply_sync_offsets has
\* adjusted input 1 to input 0 from their effective start times.
C17_Witness ==
    /\ nb_input_files = 2
    /\ RefOf(0) = -1 /\ RefOf(1) = 0
    /\ Synced(1)
    /\ \A k \in Inputs :
          /\ files1[k].start_time_effective # files0[k].start_time_effective
          /\ files1[k].start_time_effective = ExpectedEffective(files0[k])
    /\ ~BothRealtime(1) /\ BothEffective(1)
    /\ input_files[1].ts_offset
          = files1[1].ts_offset
            + StartDifference(1, files1[1].start_time_effective,
                                 files1[0].start_time_effective)
            + files1[0].input_ts_offset
    /\ input_files[1].ts_offset # files1[1].ts_offset

\* Input k meets a fatal condition: it refers to something other than -1
\* and itself, and the reference names no input or copy_ts is set without
\* start_at_zero.
FatalAt(k) ==
    /\ RefOf(k) \notin {-1, k}
    /\ \/ RefOf(k) >= nb_input_files
       \/ RefOf(k) < -1
       \/ copy_ts /\ ~start_at_zero

\* C18: when apply_sync_offsets meets a fatal condition at input k, the
\* iteration about k returns AVERROR(EINVAL) at once and nothing runs after
\* it: every input from k on is as the pass found it, ffmpeg_parse_options
\* ends with that error, and check_filter_outputs is only ever reached when
\* no input met a fatal condition.
C18_FailFast ==
    /\ [](\A k \in Inputs :
             SyncFailedAt(k)
             => /\ FatalAt(k)
                /\ ret = AVERROR(EINVAL)
                /\ \A m \in Inputs : m >= k => input_files[m] = files1[m])
    /\ [](pc = "check_filter_outputs" => \A k \in Inputs : ~FatalAt(k))
    /\ [][(SyncAt /\ FatalAt(i))
             => /\ pc' = "done"
                /\ ret' = AVERROR(EINVAL)
                /\ i' = i
                /\ input_files' = input_files]_vars
    /\ [][(pc # "done")]_vars

\* C18 witness: three inputs with flags that allow syncing; input 0 has
\* been adjusted, the pass has failed at input 1, whose reference is out of
\* range, and input 2, which has a usable reference, is untouched.
C18_Witness ==
    /\ FlagsAllowSync
    /\ nb_input_files = 3
    /\ RefOf(0) = 2 /\ RefOf(1) = 3 /\ RefOf(2) = -1
    /\ SyncFailedAt(1)
    /\ ret = AVERROR(EINVAL)
    /\ input_files[0].ts_offset # files1[0].ts_offset
    /\ input_files[1] = files1[1]
    /\ input_files[2] = files1[2]

\* A and B refer to each other.
Mutual(a, b) == a # b /\ a \in Inputs /\ b \in Inputs /\ RefOf(a) = b /\ RefOf(b) = a

\* C19: with flags that satisfy the copy_ts/start_at_zero precondition, two
\* inputs that refer to each other are both skipped: neither ts_offset
\* changes, the pass fails at neither, each iteration hands over to the
\* next input with nothing changed, and when no other input meets a fatal
\* condition apply_sync_offsets returns 0.
C19_MutualReferencesSkipped ==
    /\ [](\A a \in Inputs : \A b \in Inputs :
             (FlagsAllowSync /\ Mutual(a, b))
             => /\ ~SyncFailedAt(a)
                /\ Synced(a) => input_files[a].ts_offset = files1[a].ts_offset
                /\ (\A k \in Inputs \ {a, b} : ~FatalAt(k))
                   => /\ \A k \in Inputs : ~SyncFailedAt(k)
                      /\ (pc = "check_filter_outputs" => ret = 0))
    /\ [][(SyncAt /\ FlagsAllowSync /\ Mutual(i, input_files[i].input_sync_ref))
             => ContinuesUnchanged]_vars

\* C19 witness: inputs 0 and 1 refer to each other and both know their
\* effective start times; apply_sync_offsets has gone through both without
\* touching either and returned 0.
C19_Witness ==
    /\ FlagsAllowSync
    /\ nb_input_files = 2
    /\ Mutual(0, 1)
    /\ BothEffective(0)
    /\ pc = "check_filter_outputs"
    /\ ret = 0
    /\ input_files[0].ts_offset = files1[0].ts_offset
    /\ input_files[1].ts_offset = files1[1].ts_offset

\* C20 as stated: the chained test comes before the copy_ts/start_at_zero
\* test, so the pass never fails at an input whose reference is chained,
\* whatever the flags.
C20_ChainedNeverFails ==
    \A k \in Inputs : ChainedRef(k) => ~SyncFailedAt(k)

\* C20 amended: the tests run in the order range, copy_ts/start_at_zero,
\* chained. At an input whose in-range reference is chained the pass
\* returns AVERROR(EINVAL) when copy_ts is set without start_at_zero, and
\* only otherwise skips the input and goes on.
C20_ChainedFailsWithoutStartAtZero ==
    /\ [](\A k \in Inputs :
             ChainedRef(k)
             => /\ SyncFailedAt(k) => (copy_ts /\ ~start_at_zero)
                /\ Synced(k) => /\ FlagsAllowSync
                                /\ input_files[k].ts_offset = files1[k].ts_offset)
    /\ [][(SyncAt /\ ChainedRef(i))
             => IF copy_ts /\ ~start_at_zero
                THEN /\ pc' = "done"
                     /\ ret' = AVERROR(EINVAL)
                     /\ input_files' = input_files
                ELSE ContinuesUnchanged]_vars

\* C20 witness: copy_ts without start_at_zero; input 0 has no reference,
\* input 1 refers to input 2, which refers to input 0; the pass has gone
\* past input 0 and returned AVERROR(EINVAL) from input 1.
C20_Witness ==
    /\ copy_ts /\ ~start_at_zero
    /\ nb_input_files = 3
    /\ RefOf(0) = -1 /\ RefOf(1) = 2 /\ RefOf(2) = 0
    /\ ChainedRef(1)
    /\ SyncFailedAt(1)
    /\ ret = AVERROR(EINVAL)
    /\ input_files = files1

\* C21: with flags that satisfy the copy_ts/start_at_zero precondition, an
\* input X whose reference Y refers to itself is not taken as chained: the
\* pass does not fail at X and, given a comparable start-time pair, adds to
\* X's ts_offset the adjustment it adds for a reference without reference:
\* (selfStart - refStart) + (copy_ts ? 0 : 1) * (selfSeekStart -
\* refSeekStart) + Y's input_ts_offset.
C21_SelfReferringReferenceIsUsable ==
    \A k \in Inputs :
        (FlagsAllowSync /\ ActiveRef(k) /\ RefOf(RefOf(k)) = RefOf(k))
        => /\ ~SyncFailedAt(k)
           /\ (Synced(k) /\ (BothRealtime(k) \/ BothEffective(k)))
              => input_files[k].ts_offset =
                     files1[k].ts_offset + PairDifference(k)
                     + files1[RefOf(k)].input_ts_offset

\* C21 witness: input 0 refers to input 1, which refers to itself; the pass
\* has run over both, moved input 0's ts_offset and left input 1's.
C21_Witness ==
    /\ FlagsAllowSync
    /\ nb_input_files = 2
    /\ RefOf(0) = 1 /\ RefOf(1) = 1
    /\ Synced(1)
    /\ BothRealtime(0) \/ BothEffective(0)
    /\ input_files[0].ts_offset # files1[0].ts_offset
    /\ input_files[0].ts_offset =
           files1[0].ts_offset + PairDifference(0) + files1[1].input_ts_offset
    /\ input_files[1].ts_offset = files1[1].ts_offset

\* An InputFile without the two fields the passes write.
Frame(f) == [f EXCEPT !.start_time_effective = 0, !.ts_offset = 0]

\* C23: through both passes every input keeps its sync reference, user start
\* time, input_ts_offset, format start time, realtime start time and streams
\* (start time, time base, discard state); an iteration of
\* correct_input_start_times changes no input but its own, and an iteration
\* of apply_sync_offsets changes nothing but the ts_offset of its own input.
C23_PassesWriteTwoFields ==
    /\ [](\A k \in Inputs : Frame(input_files[k]) = Frame(files0[k]))
    /\ [][pc = "correct_input_start_times"
             => \A k \in Inputs : k # i => input_files'[k] = input_files[k]]_vars
    /\ [][pc = "apply_sync_offsets"
             => \A k \in Inputs :
                   /\ input_files'[k].start_time_effective
                         = input_files[k].start_time_effective
                   /\ k # i => input_files'[k] = input_files[k]]_vars

\* C23 witness: the corrector has rewritten start_time_effective and
\* ts_offset of input 1, the synchronizer has then moved its ts_offset, and
\* every other field of both inputs is as it was.
C23_Witness ==
    /\ nb_input_files = 2
    /\ Synced(1)
    /\ files1[1].start_time_effective # files0[1].start_time_effective
    /\ files1[1].ts_offset # files0[1].ts_offset
    /\ input_files[1].ts_offset # files1[1].ts_offset
    /\ input_files[0].ts_offset = files1[0].ts_offset
    /\ Frame(input_files[0]) = Frame(files0[0])
    /\ Frame(input_files[1]) = Frame(files0[1])

\* C25: while correct_input_start_times runs, no subtraction or negation of
\* it has left the signed 64-bit range.
C25_CorrectorStaysInRange ==
    pc = "correct_input_start_times" => ~overflow

\* ------------------------------------------------ order of the visits
\* The registry after iterations 0 .. k-1 of apply_sync_offsets in index
\* order over files, none of them fatal.
RECURSIVE InOrder(_, _)
InOrder(files, k) ==
    IF k = 0 THEN files
    ELSE LET before == InOrder(files, k - 1)
             branch == SyncBranch(before, nb_input_files, k - 1, copy_ts, start_at_zero)
         IN  IF branch \in {"realtime", "effective"}
             THEN SyncWrite(before, k - 1, branch, copy_ts)
             ELSE before

\* The pass adds an adjustment to input k when it visits it.
Adjusts(k) ==
    /\ FlagsAllowSync
    /\ ActiveRef(k)
    /\ NotChained(k)
    /\ BothRealtime(k) \/ BothEffective(k)

\* C24: whatever the order in which apply_sync_offsets visits the inputs,
\* the reference of an input it adjusts keeps the ts_offset it came with,
\* before and after its own visit, and when every input has been visited
\* and the pass returns 0 the ts_offsets are those of the visit in index
\* order.
C24_OrderOfVisitsIsImmaterial ==
    /\ \A k \in Inputs :
          (pc # "correct_input_start_times" /\ Adjusts(k))
          => input_files[RefOf(k)].ts_offset = files1[RefOf(k)].ts_offset
    /\ pc = "check_filter_outputs"
          => input_files = InOrder(files1, nb_input_files)

\* C24 witness: three inputs, input 0 visited last; inputs 1 and 2 have
\* both been adjusted to input 0, which is as it came, and the pass has
\* returned 0 with the ts_offsets of the visit in index order.
C24_Witness ==
    /\ nb_input_files = 3
    /\ RefOf(0) = -1 /\ RefOf(1) = 0 /\ RefOf(2) = 0
    /\ pc = "check_filter_outputs"
    /\ i = 0
    /\ visited = {0, 1, 2}
    /\ input_files[1].ts_offset # files1[1].ts_offset
    /\ input_files[2].ts_offset # files1[2].ts_offset
    /\ input_files[0].ts_offset = files1[0].ts_offset
    /\ input_files = InOrder(files1, 3)

\* ------------------------------------------------------ session setup
\* Every step before the two passes has succeeded.
SetupSucceeded ==
    /\ groups.global.ret = 0
    /\ \A j \in 1 .. Len(groups.input) :
          groups.input[j].parse_ret = 0 /\ groups.input[j].open_ret = 0
    /\ \A j \in 1 .. Len(groups.output) :
          groups.output[j].parse_ret = 0 /\ groups.output[j].open_ret = 0

\* ffmpeg_parse_options has returned after a step before the passes failed.
SetupFailed == pc = "done" /\ errmsg # NULL

\* The error of the group open_files stopped at.
GroupError(list) ==
    LET g == groups[list][i + 1]
    IN  IF g.parse_ret < 0 THEN g.parse_ret ELSE g.open_ret

\* C22: when splitting the command line, the global options, the opening
\* of an input, init_complex_filters or the opening of an output fails,
\* ffmpeg_parse_options returns that step's error and every opened input is
\* as ifile_open left it; correct_input_start_times is entered only from
\* the return of open_files for the outputs, and it and what follows it run
\* only when every step before has succeeded; uninit_parse_context has run
\* exactly once when ffmpeg_parse_options returns, and not before.
C22_PassesNeedSetup ==
    /\ [](SetupFailed
          => /\ ret < 0
             /\ errmsg = "parsing global options" => ret = groups.global.ret
             /\ errmsg = "opening input files" => ret = GroupError("input")
             /\ errmsg = "opening output files" => ret = GroupError("output")
             /\ \A k \in Inputs : input_files[k] = groups.input[k + 1].file)
    /\ [](pc \in {"correct_input_start_times", "apply_sync_offsets", "check_filter_outputs"}
          => SetupSucceeded /\ errmsg = NULL)
    /\ [](octx_uninit = IF pc = "done" THEN 1 ELSE 0)
    /\ [][(pc' = "correct_input_start_times" /\ pc # pc')
             => (pc = "open_files" /\ inout = "output" /\ SetupSucceeded)]_vars
    /\ [][(pc' = "apply_sync_offsets" /\ pc # pc')
             => (pc = "correct_input_start_times")]_vars

\* C22 witness: two inputs have been opened, the opening of the first
\* output has failed, and ffmpeg_parse_options has returned that error
\* after uninit_parse_context, both inputs being as ifile_open left them.
C22_Witness ==
    /\ SetupFailed
    /\ errmsg = "opening output files"
    /\ nb_input_files = 2
    /\ i = 0
    /\ groups.output[1].parse_ret = 0
    /\ ret = groups.output[1].open_ret
    /\ ret < 0
    /\ octx_uninit = 1
    /\ \A k \in Inputs : input_files[k] = groups.input[k + 1].file
    /\ \A k \in Inputs : input_files[k].start_time_effective = 0

\* Group j of a list has been gone through without error.
GroupDone(list, j) ==
    /\ opts[list][j] = [init |-> 1, parse |-> 1, open |-> 1, uninit |-> 1]
    /\ groups[list][j].parse_ret = 0
    /\ groups[list][j].open_ret = 0

\* open_files is between parse_optgroup and open_file of group j of a list.
GroupOpen(list, j) == pc = "open_file" /\ inout = list /\ i + 1 = j

\* C26: open_files goes through the groups of its list in order and stops
\* at the first whose parse_optgroup or open_file fails, returning that
\* error with the later groups untouched; open_file is called only after a
\* successful parse_optgroup; and the OptionsContext of a group is set up by
\* init_options at most once and given to uninit_options exactly once,
\* before the next group is begun or open_files returns.
C26_OpenFilesStopsAtFirstError ==
    \A list \in {"input", "output"} :
        \A j \in 1 .. Len(groups[list]) :
            LET c == opts[list][j] IN
            /\ c.init <= 1
            /\ c.parse = c.init
            /\ c.open <= c.parse
            /\ c.open = 1 => groups[list][j].parse_ret = 0
            /\ c.uninit = IF GroupOpen(list, j) THEN 0 ELSE c.init
            /\ c.init = 1 => \A m \in 1 .. j - 1 : GroupDone(list, m)
            /\ (SetupFailed /\ errmsg = OpeningFiles[list])
               => /\ ret = GroupError(list)
                  /\ j < i + 1 => GroupDone(list, j)
                  /\ j = i + 1 => c.init = 1 /\ ~GroupDone(list, j)
                  /\ j > i + 1 => c = Untouched

\* C26 witness: of two output groups the first has options that do not
\* parse; open_files has set up and torn down its OptionsContext without
\* calling open_file, the second group is untouched, and the error is
\* returned.
C26_Witness ==
    /\ SetupFailed
    /\ errmsg = "opening output files"
    /\ Len(groups.output) = 2
    /\ i = 0
    /\ groups.output[1].parse_ret < 0
    /\ ret = groups.output[1].parse_ret
    /\ opts.output[1] = [init |-> 1, parse |-> 1, open |-> 0, uninit |-> 1]
    /\ opts.output[2] = Untouched
    /\ \A j \in 1 .. Len(groups.input) : GroupDone("input", j)
    /\ Len(groups.input) >= 1

\* ----------------------------------------------------- option handlers
\* C27: a call of opt_filter_hw_device made while the device is set returns
\* AVERROR(EINVAL) and leaves it; made while it is unset, it sets the device
\* and returns 0 when the name is that of a known device, and returns
\* AVERROR(EINVAL) leaving it unset otherwise; so the device, once set, is
\* the first known one named and never changes.
C27_FilterDeviceSetOnce ==
    /\ [][i' = i + 1
             => LET arg == groups.global.opts[i + 1] IN
                IF filter_hw_device # NULL
                THEN ret' = AVERROR(EINVAL) /\ filter_hw_device' = filter_hw_device
                ELSE IF arg \in hw_devices
                THEN ret' = 0 /\ filter_hw_device' = arg
                ELSE ret' = AVERROR(EINVAL) /\ filter_hw_device' = NULL]_vars
    /\ [](filter_hw_device # NULL
          => \E j \in 1 .. i :
                /\ groups.global.opts[j] = filter_hw_device
                /\ \A m \in 1 .. j - 1 : groups.global.opts[m] \notin hw_devices)

\* C27 witness: three calls; the first names an unknown device, the second
\* a known one, which is set, the third another known one, which is
\* refused.
C27_Witness ==
    /\ i = 3
    /\ groups.global.opts[1] \notin hw_devices
    /\ groups.global.opts[2] \in hw_devices
    /\ groups.global.opts[3] \in hw_devices
    /\ groups.global.opts[3] # groups.global.opts[2]
    /\ filter_hw_device = groups.global.opts[2]
    /\ ret = AVERROR(EINVAL)


\* the -map argument the last call of opt_map was given
LastMapArg == groups.output[1].opts[i']

\* the file index an argument names, after its `-` prefix if it has one
NamedFileIndex(arg) ==
    strtol(CutAt(CutAt(IF Len(arg) > 0 /\ arg[1] = "-" THEN Tail(arg) ELSE arg, ","), "?")).value

\* the argument names a file: it is not a link label
NamesFile(arg) ==
    LET map == IF Len(arg) > 0 /\ arg[1] = "-" THEN Tail(arg) ELSE arg
    IN  ~(Len(map) > 0 /\ map[1] = "[")

\* C28: a call of opt_map never removes a stream map and never re-enables a
\* disabled one; a negative map (`-` prefix) adds no entry and disables only
\* existing entries whose file index equals the one it names; a map whose
\* file index is negative or not less than the number of inputs returns
\* AVERROR(EINVAL) and leaves the stream maps unchanged.
C28_StreamMapsOnlyGrow ==
    [][(i' = i + 1) =>
         (/\ Len(stream_maps') >= Len(stream_maps)
          /\ \A j \in 1 .. Len(stream_maps) :
                stream_maps[j].disabled => stream_maps'[j].disabled
          /\ (Len(LastMapArg) > 0 /\ LastMapArg[1] = "-") =>
                /\ Len(stream_maps') = Len(stream_maps)
                /\ \A j \in 1 .. Len(stream_maps) :
                      stream_maps'[j] # stream_maps[j] =>
                         /\ stream_maps'[j] = [stream_maps[j] EXCEPT !.disabled = TRUE]
                         /\ stream_maps[j].file_index = NamedFileIndex(LastMapArg)
          /\ (/\ NamesFile(LastMapArg)
              /\ \/ NamedFileIndex(LastMapArg) < 0
                 \/ NamedFileIndex(LastMapArg) >= nb_input_files) =>
                /\ ret' = AVERROR(EINVAL)
                /\ stream_maps' = stream_maps)]_vars

====
